---------------------------- MODULE Spec2Model ----------------------------
(***************************************************************************)
(* A model of the data core of the drop/gain event analyser:              *)
(*   - DataTypeDetector            (data_detector.py)                     *)
(*   - DataProcessor.clean_data, get_numeric_columns and                  *)
(*     generate_summary_stats      (refined_data_processor.py)            *)
(*   - EnhancedAnalysisTab's data handling and filter engine              *)
(*                                 (analysis_tab.py)                      *)
(*                                                                         *)
(* Conventions.                                                            *)
(*   A text is a sequence of one-character strings.                        *)
(*   A cell is a record [k, v]: k is the kind of the value                *)
(*     "str"  v is a text (an object-dtype cell)                           *)
(*     "num"  v is a float, held as an integer count of hundredths         *)
(*     "nan"  the null float (v = 0)                                       *)
(*     "date" v is <<year, month, day>> (a Timestamp)                      *)
(*     "nat"  the null Timestamp (v = 0)                                   *)
(*     "int"  v is an integer, "cat" v is a category label,                *)
(*     "mean" v is <<sum, count>>, the exact mean sum/count                *)
(*   A DataFrame is [is_none, columns, rows]; columns is the ordered list  *)
(*   of column names and each row is [idx, cells] with idx the row's       *)
(*   index label and cells a function from column name to cell.            *)
(***************************************************************************)
EXTENDS Integers, Sequences, FiniteSets, TLC

VARIABLES
    \* ---- EnhancedAnalysisTab (analysis_tab.py:26-35, 194, 310-381)
    raw_df_drops, raw_df_gains,
    processed_df_drops, processed_df_gains,
    current_analysis_mode, mode_var, filtered_df,
    min_threshold_var, max_threshold_var,
    recovery_threshold, recovery_period,
    condition_vars, date_from_var, date_to_var, dow_vars,
    \* ---- the last handler run: its name, the arguments of _load_data_file
    \*      when it was that, the dialogs it raised
    last_op, file_path, explicit_data_type, dialogs,
    \* ---- a call of a pure function: its arguments, position and result;
    \*      trace lists the steps the last call or handler went through
    arg_df, arg_type, arg_columns, pc, ret, trace,
    \* ---- functools.lru_cache of DataProcessor._get_numeric_columns
    \*      (refined_data_processor.py:20): its entries, the latest first
    lru_cache

tab_vars == <<raw_df_drops, raw_df_gains, processed_df_drops,
              processed_df_gains, current_analysis_mode, mode_var,
              filtered_df, min_threshold_var, max_threshold_var,
              recovery_threshold, recovery_period, condition_vars,
              date_from_var, date_to_var, dow_vars, last_op, file_path,
              explicit_data_type>>

call_vars == <<arg_df, arg_type, arg_columns, pc, ret, trace, lru_cache>>

vars == <<tab_vars, dialogs, call_vars>>

-----------------------------------------------------------------------------
(* config.py *)

DATE_COL == "Date"

DROP_PRIMARY_COL == "Drop (%)"

GAIN_PRIMARY_COL == "Gain (%)"

REQUIRED_COLS_BASE == <<DATE_COL, "Type", "Severity">>

REQUIRED_COLUMNS_DROP == REQUIRED_COLS_BASE \o <<DROP_PRIMARY_COL>>

REQUIRED_COLUMNS_GAIN == REQUIRED_COLS_BASE \o <<GAIN_PRIMARY_COL>>

RECOVERY_PERIODS == <<"1D (%)", "2D (%)", "3D (%)", "1W (%)", "1M (%)",
                      "3M (%)", "6M (%)", "1Y (%)", "3Y (%)">>

MARKET_INDICATORS == <<"VIX", "RSI", "Volume", "ATR">>

OPTIONAL_COLUMNS == MARKET_INDICATORS \o RECOVERY_PERIODS \o <<"Total Avg (%)">>

-----------------------------------------------------------------------------
(* Values *)

NaN == [k |-> "nan", v |-> 0]

NaT == [k |-> "nat", v |-> 0]

Str(s) == [k |-> "str", v |-> s]

Num(n) == [k |-> "num", v |-> n]

Date(y, m, d) == [k |-> "date", v |-> <<y, m, d>>]

\* pandas isna / notna on one cell
isnull(c) == c.k \in {"nan", "nat"}

notna(c) == ~isnull(c)

None == [is_none |-> TRUE, columns |-> <<>>, rows |-> <<>>]

DataFrame(cols, rws) == [is_none |-> FALSE, columns |-> cols, rows |-> rws]

Range(s) == {s[i] : i \in 1..Len(s)}

\* col in df.columns
HasColumn(df, col) == col \in Range(df.columns)

\* df.empty
empty(df) == df.rows = <<>>

\* a messagebox call
Dialog(kind, title, text, detail) ==
    [kind |-> kind, title |-> title, text |-> text, detail |-> detail]

-----------------------------------------------------------------------------
(* Texts: str.replace, str.strip, float(), pd.to_numeric *)

Digits == <<"0", "1", "2", "3", "4", "5", "6", "7", "8", "9">>

IsDigit(c) == \E i \in 1..10 : Digits[i] = c

DigitVal(c) == (CHOOSE i \in 1..10 : Digits[i] = c) - 1

IsDigits(s) == \A i \in 1..Len(s) : IsDigit(s[i])

RECURSIVE DigitsVal(_)
DigitsVal(s) ==
    IF s = <<>> THEN 0
    ELSE DigitsVal(SubSeq(s, 1, Len(s) - 1)) * 10 + DigitVal(s[Len(s)])

\* s.replace(ch, ''): every occurrence of ch is removed
StrReplace(s, ch) == SelectSeq(s, LAMBDA c : c # ch)

RECURSIVE LStrip(_)
LStrip(s) == IF s # <<>> /\ Head(s) = " " THEN LStrip(Tail(s)) ELSE s

RECURSIVE RStrip(_)
RStrip(s) ==
    IF s # <<>> /\ s[Len(s)] = " " THEN RStrip(SubSeq(s, 1, Len(s) - 1)) ELSE s

\* s.strip()
StrStrip(s) == RStrip(LStrip(s))

\* The value, in hundredths, of the digits ip before and fp after the
\* point.  The texts of this model carry at most two fractional digits, so
\* the value is exact.
Hundredths(ip, fp) ==
    DigitsVal(ip \o SubSeq(fp \o <<"0", "0">>, 1, 2))

\* s split at its point p (0: there is none)
SplitAtPoint(s, p) ==
    IF p = 0 THEN <<s, <<>>>> ELSE <<SubSeq(s, 1, p - 1), SubSeq(s, p + 1, Len(s))>>

\* The parts before and after the point make a number when both are digits
\* and one of them is not empty
PartsLiteral(parts, neg) ==
    IF IsDigits(parts[1] \o parts[2]) /\ Len(parts[1]) + Len(parts[2]) > 0
    THEN [ok |-> TRUE,
          cell |-> Num((IF neg THEN 0 - 1 ELSE 1) * Hundredths(parts[1], parts[2]))]
    ELSE [ok |-> FALSE, cell |-> Num(0)]

\* An unsigned decimal literal: digits with at most one point
UnsignedLiteral(s, dots, neg) ==
    IF Cardinality(dots) > 1 THEN [ok |-> FALSE, cell |-> Num(0)]
    ELSE PartsLiteral(SplitAtPoint(s, IF dots = {} THEN 0 ELSE CHOOSE i \in dots : TRUE),
                      neg)

PointsOf(s) == {i \in 1..Len(s) : s[i] = "."}

\* A decimal literal with an optional sign; "nan" is the null float.
\* [ok, cell]: ok is FALSE where Python raises ValueError.
Literal(s) ==
    IF s = <<"n", "a", "n">> THEN [ok |-> TRUE, cell |-> NaN]
    ELSE IF s # <<>> /\ Head(s) \in {"-", "+"}
    THEN UnsignedLiteral(Tail(s), PointsOf(Tail(s)), Head(s) = "-")
    ELSE UnsignedLiteral(s, PointsOf(s), FALSE)

\* float(text): surrounding whitespace is ignored
float(s) == Literal(StrStrip(s))

\* str(x) of a cell of an object column (astype(str)): a text is itself,
\* the null float is "nan"
astype_str(c) ==
    IF c.k = "str" THEN c.v ELSE <<"n", "a", "n">>

\* errors='coerce': what does not parse is null
Coerced(r) == IF r.ok THEN r.cell ELSE NaN

\* pd.to_numeric(x, errors='coerce') of one cell
to_numeric(c) ==
    CASE c.k = "str" -> Coerced(Literal(c.v))
      [] c.k = "num" -> c
      [] c.k = "nan" -> NaN

\* pd.to_numeric of a Series
to_numeric_series(s) == [i \in 1..Len(s) |-> to_numeric(s[i])]

\* s.astype(str).str.replace('%', '').str.strip()
percent_stripped(s) ==
    [i \in 1..Len(s) |-> Str(StrStrip(StrReplace(astype_str(s[i]), "%")))]

-----------------------------------------------------------------------------
(* Dates: pd.to_datetime(errors='coerce') *)

IsLeap(y) == (y % 4 = 0 /\ y % 100 # 0) \/ y % 400 = 0

DaysInMonth(y, m) ==
    IF m = 2 THEN (IF IsLeap(y) THEN 29 ELSE 28)
    ELSE IF m \in {4, 6, 9, 11} THEN 30 ELSE 31

ValidYMD(y, m, d) == m \in 1..12 /\ d \in 1..DaysInMonth(y, m)

\* The fields of s between the occurrences of sep
RECURSIVE SplitOn(_, _)
SplitOn(s, sep) ==
    LET at == {i \in 1..Len(s) : s[i] = sep}
    IN  IF at = {} THEN <<s>>
        ELSE LET p == CHOOSE i \in at : \A j \in at : i <= j
             IN  <<SubSeq(s, 1, p - 1)>> \o SplitOn(SubSeq(s, p + 1, Len(s)), sep)

\* A run of 1..n digits
IsField(s, n) == Len(s) \in 1..n /\ IsDigits(s)

\* The Timestamp of a year, month and day, NaT when there is no such day
MakeDate(y, m, d) == IF ValidYMD(y, m, d) THEN Date(y, m, d) ELSE NaT

\* The Timestamp of the year, month and day fields of a text
FieldsDate(yt, mt, dt) ==
    IF Len(yt) = 4 /\ IsDigits(yt) /\ IsField(mt, 2) /\ IsField(dt, 2)
    THEN MakeDate(DigitsVal(yt), DigitsVal(mt), DigitsVal(dt))
    ELSE NaT

\* The three fields f of a text read in the order the format gives them
OrderedDate(f, fmt) ==
    IF Len(f) # 3 THEN NaT
    ELSE IF fmt = "%Y-%m-%d" THEN FieldsDate(f[1], f[2], f[3])
    ELSE IF fmt = "%m/%d/%Y" THEN FieldsDate(f[3], f[1], f[2])
    ELSE FieldsDate(f[3], f[2], f[1])

\* strptime of one text under an explicit format; NaT where it does not match
strptime(s, fmt) ==
    OrderedDate(SplitOn(s, IF fmt = "%Y-%m-%d" THEN "-" ELSE "/"), fmt)

\* d, or the alternative when d is NaT
OrElse(d, alt) == IF d # NaT THEN d ELSE alt

\* The first of the formats under which the text is a date
RECURSIVE parse_first(_, _)
parse_first(s, fmts) ==
    IF fmts = <<>> THEN NaT
    ELSE OrElse(strptime(s, Head(fmts)), parse_first(s, Tail(fmts)))

\* The formats the format-less parse reads, each element by itself: ISO,
\* then month-first, then (when month-first is no date) day-first
inferred_formats == <<"%Y-%m-%d", "%m/%d/%Y", "%d/%m/%Y">>

\* pd.to_datetime of one cell; fmt = "" is the call without a format
to_datetime(c, fmt) ==
    CASE c.k = "str"  -> parse_first(c.v, IF fmt = "" THEN inferred_formats ELSE <<fmt>>)
      [] c.k = "date" -> c
      [] c.k = "nat"  -> NaT
      [] c.k = "nan"  -> NaT

\* pd.to_datetime of a Series
to_datetime_series(s, fmt) == [i \in 1..Len(s) |-> to_datetime(s[i], fmt)]

\* Timestamp comparison
DateLE(a, b) ==
    \/ a.v[1] < b.v[1]
    \/ a.v[1] = b.v[1] /\ a.v[2] < b.v[2]
    \/ a.v[1] = b.v[1] /\ a.v[2] = b.v[2] /\ a.v[3] <= b.v[3]

\* Days since 1970-01-01 of a civil date
Ordinal(y, m, d) ==
    LET yy  == IF m <= 2 THEN y - 1 ELSE y
        era == yy \div 400
        yoe == yy - era * 400
        mp  == (m + 9) % 12
        doy == (153 * mp + 2) \div 5 + d - 1
        doe == yoe * 365 + yoe \div 4 - yoe \div 100 + doy
    IN  era * 146097 + doe - 719468

\* Series.dt.dayofweek: Monday is 0
dayofweek(c) == (Ordinal(c.v[1], c.v[2], c.v[3]) + 3) % 7

-----------------------------------------------------------------------------
(* DataFrame operations *)

\* df[col]: the Series of one column, in row order
column(df, col) == [i \in 1..Len(df.rows) |-> df.rows[i].cells[col]]

\* df[col] = vals: an existing column is overwritten in place, a new one is
\* appended
with_column(df, col, vals) ==
    [df EXCEPT
        !.columns = IF HasColumn(df, col) THEN @ ELSE Append(@, col),
        !.rows = [i \in 1..Len(df.rows) |->
            [df.rows[i] EXCEPT !.cells =
                [c \in DOMAIN df.rows[i].cells \cup {col} |->
                    IF c = col THEN vals[i] ELSE df.rows[i].cells[c]]]]]

\* df.dropna(subset=[col]): rows keep their index labels
dropna(df, col) ==
    [df EXCEPT !.rows = SelectSeq(@, LAMBDA r : notna(r.cells[col]))]

\* df[mask]: the rows whose index label the mask holds, labels kept
take(df, mask) ==
    [df EXCEPT !.rows = SelectSeq(@, LAMBDA r : r.idx \in mask)]

\* sort_values sorts with kind='quicksort', which is not stable: the order
\* it leaves rows of equal Date in is not specified.  The model lets a call
\* leave them in input order or in the reverse of it.
TieOrders == {"kept", "reversed"}

\* The row a goes before the row r that is put into the list after it
GoesBefore(a, r, ties) ==
    /\ DateLE(a.cells[DATE_COL], r.cells[DATE_COL])
    /\ ties = "reversed" => ~DateLE(r.cells[DATE_COL], a.cells[DATE_COL])

\* One row put into a list sorted by Date
RECURSIVE InsertByDate(_, _, _)
InsertByDate(sorted, r, ties) ==
    IF sorted = <<>> THEN <<r>>
    ELSE IF GoesBefore(Head(sorted), r, ties)
    THEN <<Head(sorted)>> \o InsertByDate(Tail(sorted), r, ties)
    ELSE <<r>> \o sorted

RECURSIVE SortByDate(_, _)
SortByDate(rws, ties) ==
    IF rws = <<>> THEN <<>>
    ELSE InsertByDate(SortByDate(SubSeq(rws, 1, Len(rws) - 1), ties),
                      rws[Len(rws)], ties)

\* Mutant: the rows stay in input order
sort_values_unsorted(df, ties) == df

\* df.sort_values(by=DATE_COL): ascending by Date
sort_values(df, ties) == [df EXCEPT !.rows = SortByDate(@, ties)]

\* df.reset_index(drop=True): labels 0..n-1 in row order
reset_index(df) ==
    [df EXCEPT !.rows = [i \in 1..Len(@) |-> [@[i] EXCEPT !.idx = i - 1]]]

-----------------------------------------------------------------------------
(* DataProcessor (refined_data_processor.py) *)

date_formats == <<"", "%Y-%m-%d", "%m/%d/%Y", "%d/%m/%Y">>

\* df[DATE_COL].notna().sum()
valid_dates(df) ==
    Cardinality({i \in 1..Len(df.rows) : notna(df.rows[i].cells[DATE_COL])})

\* One attempt's result: kept when it holds a valid date, else handed to
\* the next attempt
RECURSIVE try_date_formats(_, _)
next_date_format(parsed, fmts) ==
    IF valid_dates(parsed) > 0 THEN parsed ELSE try_date_formats(parsed, fmts)

\* The loop over date_formats: each attempt overwrites df[DATE_COL] with the
\* parse of what the column holds by then, and the loop stops at the first
\* attempt that leaves a valid date.
try_date_formats(df, fmts) ==
    IF fmts = <<>> THEN df
    ELSE next_date_format(
            with_column(df, DATE_COL,
                        to_datetime_series(column(df, DATE_COL), Head(fmts))),
            Tail(fmts))

\* The Date column each attempt of the loop hands to pd.to_datetime: the
\* first reads the column of the table, every later one the column the
\* attempt before it assigned
RECURSIVE attempt_inputs(_, _)
next_attempt_inputs(parsed, fmts) ==
    IF valid_dates(parsed) > 0 THEN <<>> ELSE attempt_inputs(parsed, fmts)

attempt_inputs(df, fmts) ==
    IF fmts = <<>> THEN <<>>
    ELSE <<column(df, DATE_COL)>>
         \o next_attempt_inputs(
                with_column(df, DATE_COL,
                            to_datetime_series(column(df, DATE_COL), Head(fmts))),
                Tail(fmts))

\* Mutant: the emptied table is handed back without the warning
dates_checked_silent(dropped) == [ret |-> dropped, dialogs |-> <<>>]

\* The end of _clean_date_column: an emptied table is a warning and None
dates_checked(dropped) ==
    IF empty(dropped)
    THEN [ret |-> None,
          dialogs |-> <<Dialog("showwarning", "Data Warning",
                               "No valid date entries found", <<>>)>>]
    ELSE [ret |-> dropped, dialogs |-> <<>>]

\* _clean_date_column: [ret, dialogs]
clean_date_column(df) ==
    dates_checked(dropna(try_date_formats(df, date_formats), DATE_COL))

\* df[col].dtype == 'object': the column holds text
is_object(df, col) ==
    \E i \in 1..Len(df.rows) : df.rows[i].cells[col].k = "str"

\* The conversion of one column: percent signs and surrounding blanks are
\* taken out of an object column's cells, then every cell is coerced
convert_column(df, col) ==
    with_column(df, col,
        to_numeric_series(IF is_object(df, col) THEN percent_stripped(column(df, col))
                          ELSE column(df, col)))

RECURSIVE convert_columns(_, _)
convert_columns(df, cols) ==
    IF cols = <<>> THEN df
    ELSE convert_columns(
            IF HasColumn(df, Head(cols)) THEN convert_column(df, Head(cols)) ELSE df,
            Tail(cols))

\* _convert_numeric_columns
convert_numeric_columns(df, primary_col) ==
    convert_columns(df, <<primary_col>> \o MARKET_INDICATORS \o RECOVERY_PERIODS
                        \o <<"Volume", "Total Avg (%)">>)

Abs(n) == IF n < 0 THEN 0 - n ELSE n

\* Series.dt.year, .month, .quarter
dt_year(s) == [i \in 1..Len(s) |-> [k |-> "int", v |-> s[i].v[1]]]

dt_month(s) == [i \in 1..Len(s) |-> [k |-> "int", v |-> s[i].v[2]]]

dt_quarter(s) == [i \in 1..Len(s) |-> [k |-> "int", v |-> (s[i].v[2] - 1) \div 3 + 1]]

\* Series.abs()
series_abs(s) ==
    [i \in 1..Len(s) |-> IF s[i].k = "num" THEN Num(Abs(s[i].v)) ELSE NaN]

\* pd.cut(x, bins=[0, 1, 2, 3, 5, 100], labels=[...]): right-closed bins,
\* the lowest edge excluded; a value in no bin has no category
magnitude_category(m) ==
    IF m.k # "num" THEN NaN
    ELSE IF 0 < m.v /\ m.v <= 100 THEN [k |-> "cat", v |-> "< 1%"]
    ELSE IF 100 < m.v /\ m.v <= 200 THEN [k |-> "cat", v |-> "1-2%"]
    ELSE IF 200 < m.v /\ m.v <= 300 THEN [k |-> "cat", v |-> "2-3%"]
    ELSE IF 300 < m.v /\ m.v <= 500 THEN [k |-> "cat", v |-> "3-5%"]
    ELSE IF 500 < m.v /\ m.v <= 10000 THEN [k |-> "cat", v |-> "> 5%"]
    ELSE NaN

cut(s) == [i \in 1..Len(s) |-> magnitude_category(s[i])]

RECURSIVE SumSeq(_)
SumSeq(s) == IF s = <<>> THEN 0 ELSE Head(s) + SumSeq(Tail(s))

\* The mean of the non-null cells of one row
mean_of(vals) ==
    IF vals = <<>> THEN NaN
    ELSE [k |-> "mean",
          v |-> <<SumSeq([i \in 1..Len(vals) |-> vals[i].v]), Len(vals)>>]

\* df[recovery_cols].mean(axis=1) of one row: nulls skipped
row_mean(r, cols) ==
    mean_of(SelectSeq([i \in 1..Len(cols) |-> r.cells[cols[i]]],
                      LAMBDA c : c.k = "num"))

\* The average-recovery column, added when a recovery column is there
with_avg_recovery(df, recovery_cols) ==
    IF recovery_cols # <<>>
    THEN with_column(df, "Avg Recovery",
            [i \in 1..Len(df.rows) |-> row_mean(df.rows[i], recovery_cols)])
    ELSE df

\* _add_derived_columns
add_derived_columns(df, data_type) ==
    with_avg_recovery(
        with_column(
            with_column(
                with_column(
                    with_column(df, "Year", dt_year(column(df, DATE_COL))),
                    "Month", dt_month(column(df, DATE_COL))),
                "Quarter", dt_quarter(column(df, DATE_COL))),
            "Magnitude Category",
            cut(series_abs(column(df,
                    IF data_type = "gains" THEN GAIN_PRIMARY_COL
                    ELSE DROP_PRIMARY_COL)))),
        SelectSeq(RECOVERY_PERIODS, LAMBDA c : HasColumn(df, c)))

\* Mutant: the rows with a null in any column are dropped (dropna())
drop_null_anywhere(df, primary_col) ==
    [df EXCEPT !.rows =
        SelectSeq(@, LAMBDA r : \A c \in Range(df.columns) : notna(r.cells[c]))]

\* Mutant: the rows without a primary value are not dropped
drop_null_primary_kept(df, primary_col) == df

\* cleaned_df.dropna(subset=[primary_col]) in clean_data
drop_null_primary(df, primary_col) == dropna(df, primary_col)

\* Mutant: the check for an all-null primary column is skipped
primary_all_null_skipped(df, primary_col) == FALSE

\* Only a table without rows counts as one without primary values
primary_all_null_if_empty(df, primary_col) == df.rows = <<>>

\* cleaned_df[primary_col].isnull().all()
primary_all_null(df, primary_col) ==
    \A i \in 1..Len(df.rows) : isnull(df.rows[i].cells[primary_col])

\* The table clean_data returns once the rows without a primary value are
\* dropped: sorted by date, re-indexed, derived columns added
finish_clean(df, data_type, ties) ==
    add_derived_columns(reset_index(sort_values(df, ties)), data_type)

\* clean_data after the rows without a primary value are dropped
clean_dropped(dropped, data_type, ties) ==
    IF empty(dropped)
    THEN [ret |-> None,
          dialogs |-> <<Dialog("showwarning", "Warning",
                         "No valid data rows remaining after cleaning", <<>>)>>,
          trace |-> <<"required_cols", "clean_date_column",
                      "convert_numeric_columns", "dropna">>]
    ELSE [ret |-> finish_clean(dropped, data_type, ties),
          dialogs |-> <<>>,
          trace |-> <<"required_cols", "clean_date_column",
                      "convert_numeric_columns", "dropna",
                      "sort_values", "add_derived_columns">>]

\* clean_data after numeric conversion
clean_converted(converted, primary_col, data_type, ties) ==
    IF primary_all_null(converted, primary_col)
    THEN [ret |-> None,
          dialogs |-> <<Dialog("showerror", "Data Error",
                               "contains no valid numeric data", <<primary_col>>)>>,
          trace |-> <<"required_cols", "clean_date_column",
                      "convert_numeric_columns">>]
    ELSE clean_dropped(drop_null_primary(converted, primary_col), data_type, ties)

\* clean_data after _clean_date_column returned dated = [ret, dialogs]
clean_dated(dated, primary_col, data_type, ties) ==
    IF dated.ret.is_none \/ empty(dated.ret)
    THEN [ret |-> None, dialogs |-> dated.dialogs,
          trace |-> <<"required_cols", "clean_date_column">>]
    ELSE clean_converted(convert_numeric_columns(dated.ret, primary_col),
                         primary_col, data_type, ties)

\* clean_data once the missing required columns are listed
clean_required(df, missing_cols, primary_col, data_type, ties) ==
    IF missing_cols # <<>>
    THEN [ret |-> None,
          dialogs |-> <<Dialog("showerror", "Data Error",
                               "Required columns missing", missing_cols)>>,
          trace |-> <<"required_cols">>]
    ELSE clean_dated(clean_date_column(df), primary_col, data_type, ties)

primary_col_of(data_type) ==
    IF data_type = "gains" THEN GAIN_PRIMARY_COL ELSE DROP_PRIMARY_COL

\* clean_data: [ret, dialogs, trace].  ret is None on every failure; trace
\* lists the steps the call went through; ties is the order the sort leaves
\* rows of equal Date in.  No step raises on the tables of this model, so
\* the handler of lines 98-103 is not entered.
clean_data(df, data_type, ties) ==
    clean_required(df,
        SelectSeq(<<DATE_COL, primary_col_of(data_type)>>, LAMBDA c : ~HasColumn(df, c)),
        primary_col_of(data_type), data_type, ties)

\* Mutant: clean_data works on the caller's table itself, so the dates that
\* _clean_date_column assigns to df[DATE_COL] are in the caller's table
caller_df_uncopied(df, data_type) ==
    IF HasColumn(df, DATE_COL) /\ HasColumn(df, primary_col_of(data_type))
    THEN try_date_formats(df, date_formats) ELSE df

\* The caller's table after clean_data(df, data_type): line 50 takes a copy
\* and every assignment of the call is to the copy or to tables made from it
caller_df(df, data_type) == df

-----------------------------------------------------------------------------
(* DataTypeDetector (data_detector.py) *)

\* Mutant: a table with both primary columns is taken for gains
detect_gains_first(columns) ==
    IF GAIN_PRIMARY_COL \in Range(columns) THEN "gains"
    ELSE IF DROP_PRIMARY_COL \in Range(columns) THEN "drops"
    ELSE "unknown"

detect_data_type_from_columns(columns) ==
    LET has_drop_col == DROP_PRIMARY_COL \in Range(columns)
        has_gain_col == GAIN_PRIMARY_COL \in Range(columns)
    IN  IF has_drop_col /\ has_gain_col THEN "drops"
        ELSE IF has_drop_col THEN "drops"
        ELSE IF has_gain_col THEN "gains"
        ELSE "unknown"

-----------------------------------------------------------------------------
(* Inputs: the raw tables pd.read_csv hands to the program *)

\* The most rows a generated raw table has
MaxRows == 2

T_2024_01_05 == <<"2", "0", "2", "4", "-", "0", "1", "-", "0", "5">>

T_2024_01_03 == <<"2", "0", "2", "4", "-", "0", "1", "-", "0", "3">>

\* The cells of a raw Date column: two ISO texts (a Friday and the Wednesday
\* before it), text that is no date, an empty cell
DateCells == {Str(T_2024_01_05), Str(T_2024_01_03), Str(<<"x">>), NaN}

\* The cells of a raw primary column: two percentage texts, text that is no
\* number, an empty cell, the float 0.0
PrimaryCells ==
    {Str(<<"3", ".", "4", "5", "%">>), Str(<<" ", "-", "2", ".", "1", " ", "%", " ">>),
     Str(<<"x">>), NaN, Num(0)}

\* The cells of a raw indicator or recovery column
OtherCells == {Str(<<"x">>), Num(2000)}

CellsOf(col) ==
    IF col = DATE_COL THEN DateCells
    ELSE IF col \in {DROP_PRIMARY_COL, GAIN_PRIMARY_COL} THEN PrimaryCells
    ELSE OtherCells

\* The column lists of the generated raw tables
Layouts == {<<DATE_COL, DROP_PRIMARY_COL>>, <<DATE_COL, GAIN_PRIMARY_COL>>,
            <<DROP_PRIMARY_COL>>, <<DATE_COL>>,
            <<DATE_COL, DROP_PRIMARY_COL, "VIX">>}

\* The rows a table of the given columns can hold, before index labels
RowCells(cols) ==
    {f \in [Range(cols) -> DateCells \cup PrimaryCells \cup OtherCells] :
        \A c \in Range(cols) : f[c] \in CellsOf(c)}

\* read_csv types a column as float when every cell is a number or empty,
\* and as object otherwise, its cells then being texts or empty
WellTyped(cols, cellrows) ==
    \A c \in Range(cols) :
        (\E i \in 1..Len(cellrows) : cellrows[i][c].k = "str")
            => (\A i \in 1..Len(cellrows) : cellrows[i][c].k # "num")

\* A RangeIndex: labels 0..n-1
Labelled(cellrows) ==
    [i \in 1..Len(cellrows) |-> [idx |-> i - 1, cells |-> cellrows[i]]]

RawTablesOf(cols) ==
    {DataFrame(cols, Labelled(rws)) :
        rws \in {x \in UNION {[1..n -> RowCells(cols)] : n \in 0..MaxRows} :
                    WellTyped(cols, x)}}

RawTables == UNION {RawTablesOf(cols) : cols \in Layouts}

Kinds == {"drops", "gains"}

-----------------------------------------------------------------------------
(* The analysis tab before any file is loaded (analysis_tab.py:26-35) *)

Indicators == <<"VIX", "RSI", "Volume">>

Days == <<"Mon", "Tue", "Wed", "Thu", "Fri">>

TabInit ==
    /\ raw_df_drops = None
    /\ raw_df_gains = None
    /\ processed_df_drops = None
    /\ processed_df_gains = None
    /\ current_analysis_mode = "drops"
    /\ mode_var = "drops"
    /\ filtered_df = None
    /\ min_threshold_var = <<"0", ".", "1">>
    /\ max_threshold_var = <<>>
    /\ recovery_threshold = <<>>
    /\ recovery_period = "1D"
    /\ condition_vars = [i \in Range(Indicators) |->
                            [enabled |-> FALSE, min |-> <<>>, max |-> <<>>]]
    /\ date_from_var = <<>>
    /\ date_to_var = <<>>
    /\ dow_vars = [d \in Range(Days) |-> TRUE]
    /\ last_op = "init"
    /\ file_path = ""
    /\ explicit_data_type = ""

NoCall ==
    /\ arg_df = None
    /\ arg_type = "drops"
    /\ arg_columns = <<>>
    /\ pc = "idle"
    /\ ret = None
    /\ trace = <<>>
    /\ lru_cache = <<>>

-----------------------------------------------------------------------------
(* One call of DataProcessor.clean_data on a raw table *)

InitClean ==
    /\ TabInit
    /\ dialogs = <<>>
    /\ arg_df \in RawTables
    /\ arg_type \in Kinds
    /\ arg_columns = <<>>
    /\ pc = "call"
    /\ ret = None
    /\ trace = <<>>
    /\ lru_cache = <<>>

\* What a finished call leaves: its result, its dialogs and its steps
Returned(r) ==
    /\ ret' = r.ret
    /\ dialogs' = r.dialogs
    /\ trace' = r.trace
    /\ UNCHANGED lru_cache

CleanData ==
    /\ pc = "call"
    /\ \E ties \in TieOrders : Returned(clean_data(arg_df, arg_type, ties))
    /\ arg_df' = caller_df(arg_df, arg_type)
    /\ pc' = "done"
    /\ UNCHANGED <<tab_vars, arg_type, arg_columns>>

\* clean_data called again, on the table the first call returned
CleanAgain ==
    /\ pc = "done"
    /\ ~ret.is_none
    /\ \E ties \in TieOrders : Returned(clean_data(ret, arg_type, ties))
    /\ arg_df' = caller_df(ret, arg_type)
    /\ pc' = "again"
    /\ UNCHANGED <<tab_vars, arg_type, arg_columns>>

NextClean == CleanData \/ CleanAgain

SpecClean == InitClean /\ [][NextClean]_vars

-----------------------------------------------------------------------------
(* One call of DataTypeDetector.detect_data_type_from_columns *)

\* The column names a CSV header is drawn from, in file order
ColumnPool == <<DATE_COL, "Type", "Severity", DROP_PRIMARY_COL,
                GAIN_PRIMARY_COL, "VIX", "1D (%)">>

ColumnLists ==
    {SelectSeq(ColumnPool, LAMBDA c : c \in S) : S \in SUBSET Range(ColumnPool)}

InitDetect ==
    /\ TabInit
    /\ dialogs = <<>>
    /\ arg_df = None
    /\ arg_type = "drops"
    /\ arg_columns \in ColumnLists
    /\ pc = "call"
    /\ ret = "pending"
    /\ trace = <<>>
    /\ lru_cache = <<>>

DetectDataType ==
    /\ pc = "call"
    /\ ret' = detect_data_type_from_columns(arg_columns)
    /\ pc' = "done"
    /\ UNCHANGED <<tab_vars, dialogs, arg_df, arg_type, arg_columns, trace, lru_cache>>

NextDetect == DetectDataType

SpecDetect == InitDetect /\ [][NextDetect]_vars

-----------------------------------------------------------------------------
(* EnhancedAnalysisTab (analysis_tab.py): the filter engine *)

\* The texts and selections of the filter widgets, read at one moment
CurrentUI ==
    [min |-> min_threshold_var, max |-> max_threshold_var,
     rec |-> recovery_threshold, period |-> recovery_period,
     cond |-> condition_vars, from |-> date_from_var, to |-> date_to_var,
     dow |-> dow_vars]

\* The drops table whatever the mode
get_current_df_drops(mode, drops, gains) == drops

\* _get_current_df
get_current_df(mode, drops, gains) == IF mode = "drops" THEN drops ELSE gains

\* A parsed bound [ok, set, cell]: ok is FALSE where float() raises
\* ValueError, set is FALSE for None
bound_of(r) == [ok |-> r.ok, set |-> r.ok, cell |-> r.cell]

\* float(x) if x else None
optional_float(text) ==
    IF text = <<>> THEN [ok |-> TRUE, set |-> FALSE, cell |-> NaN]
    ELSE bound_of(float(text))

\* series >= v and series <= v on one cell: a null compares False
GE(c, v) == c.k = "num" /\ v.k = "num" /\ c.v >= v.v

LE(c, v) == c.k = "num" /\ v.k = "num" /\ c.v <= v.v

\* The row of an index label
row_at(df, label) ==
    df.rows[CHOOSE n \in 1..Len(df.rows) : df.rows[n].idx = label]

\* pd.Series(True, index=df.index): a mask is the set of labels it holds True
all_true(df) == {df.rows[n].idx : n \in 1..Len(df.rows)}

\* if min_val is not None: mask &= df[col] >= min_val
\* if max_val is not None: mask &= df[col] <= max_val
range_mask(df, mask, col, lo, hi) ==
    {i \in mask :
        /\ lo.set => GE(row_at(df, i).cells[col], lo.cell)
        /\ hi.set => LE(row_at(df, i).cells[col], hi.cell)}

\* The outcome of _apply_filters_and_update: stored says whether
\* self.filtered_df was assigned, and filtered is what was assigned
Stored(filtered, shown, steps) ==
    [stored |-> TRUE, filtered |-> filtered, dialogs |-> shown, trace |-> steps]

Aborted(shown, steps) ==
    [stored |-> FALSE, filtered |-> None, dialogs |-> shown, trace |-> steps]

\* float(self.recovery_threshold.get()) raised ValueError
recovery_invalid(val) == ~val.ok

\* Mutant: the call ends at the warning and stores nothing
recovery_unavailable_aborts(df, mask, period) ==
    Aborted(<<Dialog("showwarning", "Missing Data",
                     "Recovery period not available in data.", <<period>>)>>,
            <<"thresholds", "conditions", "dates", "dow", "recovery">>)

\* Lines 626-628, 633: the period's column is not in the table; a warning
\* is shown, the mask is left as it was and the table is stored
recovery_unavailable(df, mask, period) ==
    Stored(take(df, mask),
           <<Dialog("showwarning", "Missing Data",
                    "Recovery period not available in data.", <<period>>)>>,
           <<"thresholds", "conditions", "dates", "dow", "recovery", "store">>)

\* Lines 617-633: the recovery filter, then the table is stored
apply_recovery(df, mask, val, recovery_col, period) ==
    IF recovery_invalid(val)
    THEN Aborted(<<Dialog("showerror", "Invalid Input",
                          "Invalid number entered for recovery filter.", <<>>)>>,
                 <<"thresholds", "conditions", "dates", "dow", "recovery">>)
    ELSE IF ~val.set
    THEN Stored(take(df, mask), <<>>,
                <<"thresholds", "conditions", "dates", "dow", "recovery", "store">>)
    ELSE IF HasColumn(df, recovery_col)
    THEN Stored(take(df, range_mask(df, mask, recovery_col, val,
                                    [ok |-> TRUE, set |-> FALSE, cell |-> NaN])),
                <<>>,
                <<"thresholds", "conditions", "dates", "dow", "recovery", "store">>)
    ELSE recovery_unavailable(df, mask, period)

\* Mutant: with no day checked the weekday filter lets every row through
dow_mask_unset_passes(df, dow) ==
    {i \in all_true(df) :
        \/ \A n \in 1..Len(Days) : ~dow[Days[n]]
        \/ \E n \in 1..Len(Days) :
              dow[Days[n]] /\ dayofweek(row_at(df, i).cells[DATE_COL]) = n - 1}

\* The weekday filter left out: every row passes
dow_mask_not_applied(df, dow) == all_true(df)

\* Lines 610-614: the rows whose weekday is one of the checked days
dow_mask(df, dow) ==
    {i \in all_true(df) :
        \E n \in 1..Len(Days) :
            dow[Days[n]] /\ dayofweek(row_at(df, i).cells[DATE_COL]) = n - 1}

\* Lines 608-631
apply_dow(df, mask, ui) ==
    apply_recovery(df, mask \cap dow_mask(df, ui.dow), optional_float(ui.rec),
                   ui.period \o " (%)", ui.period)

\* The bound of a date widget that is empty, or whose text made
\* pd.to_datetime raise: the bare except passes and the mask is left alone
NoBound == [k |-> "none", v |-> 0]

\* mask &= df[DATE_COL] >= date_from; no Timestamp is >= NaT
from_mask(df, mask, d) ==
    IF d = NoBound THEN mask
    ELSE IF d = NaT THEN {}
    ELSE {i \in mask : DateLE(d, row_at(df, i).cells[DATE_COL])}

\* mask &= df[DATE_COL] <= date_to; no Timestamp is <= NaT
to_mask(df, mask, d) ==
    IF d = NoBound THEN mask
    ELSE IF d = NaT THEN {}
    ELSE {i \in mask : DateLE(row_at(df, i).cells[DATE_COL], d)}

\* The texts pd.to_datetime reads as the null Timestamp without raising
nat_strings ==
    {<<"N", "a", "T">>, <<"n", "a", "t">>, <<"N", "A", "T">>,
     <<"n", "a", "n">>, <<"N", "a", "N">>, <<"N", "A", "N">>}

\* pd.to_datetime(text), errors='raise', of a text that is no null text: a
\* text that is no date raises
raise_on_error(d) == IF d = NaT THEN NoBound ELSE d

\* The bound a date widget gives
date_bound(text) ==
    IF text = <<>> THEN NoBound
    ELSE IF text \in nat_strings THEN NaT
    ELSE raise_on_error(to_datetime(Str(text), ""))

\* Lines 593-606
apply_dates(df, mask, ui) ==
    apply_dow(df,
              to_mask(df, from_mask(df, mask, date_bound(ui.from)), date_bound(ui.to)),
              ui)

\* Lines 584-591: both bounds are parsed before either is applied; a
\* ValueError leaves the mask as it was (continue)
condition_bounds(df, mask, indicator, lo, hi) ==
    IF ~lo.ok \/ ~hi.ok THEN mask
    ELSE range_mask(df, mask, indicator, lo, hi)

\* Lines 582-591 for one indicator
condition_mask(df, mask, indicator, vars_dict) ==
    IF HasColumn(df, indicator) /\ vars_dict.enabled
    THEN condition_bounds(df, mask, indicator,
                          optional_float(vars_dict.min), optional_float(vars_dict.max))
    ELSE mask

\* Lines 580-591: the loop over condition_vars
RECURSIVE apply_conditions(_, _, _, _)
apply_conditions(df, mask, indicators, ui) ==
    IF indicators = <<>> THEN apply_dates(df, mask, ui)
    ELSE apply_conditions(df,
            condition_mask(df, mask, Head(indicators), ui.cond[Head(indicators)]),
            Tail(indicators), ui)

\* Mutant: a threshold that is no number is taken for no threshold
thresholds_invalid_ignored(lo, hi) == FALSE

\* float() of the min or max threshold raised ValueError
thresholds_invalid(lo, hi) == ~lo.ok \/ ~hi.ok

\* Lines 565-578
apply_thresholds(df, col, lo, hi, ui) ==
    IF thresholds_invalid(lo, hi)
    THEN Aborted(<<Dialog("showerror", "Invalid Input",
                          "Invalid threshold values", <<>>)>>,
                 <<"thresholds">>)
    ELSE apply_conditions(df, range_mask(df, all_true(df), col, lo, hi),
                          Indicators, ui)

\* _apply_filters_and_update on the current table df, as far as
\* self.filtered_df goes
apply_filters(df, mode, ui) ==
    IF df.is_none \/ empty(df) THEN Stored(None, <<>>, <<"no_data">>)
    ELSE apply_thresholds(df,
            IF mode = "drops" THEN DROP_PRIMARY_COL ELSE GAIN_PRIMARY_COL,
            optional_float(ui.min), optional_float(ui.max), ui)

-----------------------------------------------------------------------------
(* EnhancedAnalysisTab._load_data_file *)

\* Mutant: whatever clean_data returned is stored
load_succeeded_always(cleaned_df) == TRUE

\* cleaned_df is not None and not cleaned_df.empty
load_succeeded(cleaned_df) == ~cleaned_df.is_none /\ ~empty(cleaned_df)

\* What _load_data_file decides before it touches the tab
Loaded(type, raw, cleaned, shown, steps) ==
    [stored |-> TRUE, type |-> type, raw |-> raw, cleaned |-> cleaned,
     dialogs |-> shown, trace |-> steps]

NotLoaded(shown, steps) ==
    [stored |-> FALSE, type |-> "unknown", raw |-> None, cleaned |-> None,
     dialogs |-> shown, trace |-> steps]

\* Lines 496-521
load_cleaned(raw_df, detected_type, cleaned) ==
    IF load_succeeded(cleaned.ret)
    THEN Loaded(detected_type, raw_df, cleaned.ret, cleaned.dialogs,
                <<"read_csv", "detect", "clean_data", "store">>)
    ELSE NotLoaded(cleaned.dialogs \o
                     <<Dialog("showerror", "Load Error",
                              "Failed to load or clean data", <<>>)>>,
                   <<"read_csv", "detect", "clean_data">>)

\* df.head(): the first five rows
head(df) == [df EXCEPT !.rows = SubSeq(@, 1, IF Len(@) < 5 THEN Len(@) ELSE 5)]

\* One entry of results['issues']: what it is about and the columns it names.
\* Only the "optional" message holds the words "optional columns" (the
\* others name required columns, the Date column or the two primary columns)
Issue(about, cols) == [about |-> about, cols |-> cols]

\* Mutant: the report is valid whenever no required column is missing
is_valid_without_issues(issues, missing_required) == missing_required = <<>>

\* Lines 88-90: valid is set when the issues are none or all about optional
\* columns, and no required column is missing
is_valid(issues, missing_required) ==
    /\ issues = <<>> \/ \A i \in 1..Len(issues) : issues[i].about = "optional"
    /\ missing_required = <<>>

\* The results dict once every issue is listed
validate_results(df_sample, detected_type, issues, missing_required, missing_optional) ==
    [present_cols |-> df_sample.columns,
     data_type |-> detected_type,
     issues |-> issues,
     missing_req_cols |-> missing_required,
     missing_opt_cols |-> missing_optional,
     valid |-> is_valid(issues, missing_required)]

\* Lines 82-85
validate_optional(df_sample, detected_type, issues, missing_required, missing_optional) ==
    validate_results(df_sample, detected_type,
        IF missing_optional # <<>> /\ missing_required = <<>>
        THEN Append(issues, Issue("optional", missing_optional)) ELSE issues,
        missing_required, missing_optional)

\* pd.to_datetime(series, errors='raise') raises: a cell is text and no date
to_datetime_raises(s) ==
    \E i \in 1..Len(s) : s[i].k = "str" /\ to_datetime(s[i], "") = NaT

\* Lines 72-80: the sampled Date column is parsed; a failure is an issue
date_issue(df_sample) ==
    IF HasColumn(df_sample, DATE_COL) /\ ~empty(df_sample)
       /\ to_datetime_raises(column(df_sample, DATE_COL))
    THEN <<Issue("date", <<DATE_COL>>)>> ELSE <<>>

\* Lines 67-85
validate_required(df_sample, detected_type, issues, missing_required) ==
    validate_optional(df_sample, detected_type,
        (IF missing_required # <<>>
         THEN Append(issues, Issue("required", missing_required)) ELSE issues)
            \o date_issue(df_sample),
        missing_required,
        SelectSeq(OPTIONAL_COLUMNS, LAMBDA c : ~HasColumn(df_sample, c)))

\* Lines 59-65: required_cols_check
required_cols_check(detected_type) ==
    IF detected_type = "unknown" THEN REQUIRED_COLS_BASE
    ELSE IF detected_type = "drops" THEN REQUIRED_COLUMNS_DROP
    ELSE REQUIRED_COLUMNS_GAIN

\* Lines 56-67
validate_detected(df_sample, detected_type) ==
    validate_required(df_sample, detected_type,
        IF detected_type = "unknown"
        THEN <<Issue("unknown", <<DROP_PRIMARY_COL, GAIN_PRIMARY_COL>>)>> ELSE <<>>,
        SelectSeq(required_cols_check(detected_type),
                  LAMBDA c : ~HasColumn(df_sample, c)))

\* validate_csv_structure(file_path, df): the results dict.  No step raises
\* on the tables of this model, so the handler of lines 92-94 is not entered.
validate_csv_structure(df) ==
    validate_detected(head(df), detect_data_type_from_columns(df.columns))

\* Lines 486-496.  No file of the model has two rows of one Date, so the
\* order of ties in the sort is of no effect here.
load_detected(raw_df, detected_type) ==
    IF detected_type = "unknown"
    THEN NotLoaded(<<Dialog("showerror", "Load Error",
                            "Could not determine data type", <<>>)>>,
                   <<"read_csv", "detect">>)
    ELSE load_cleaned(caller_df(raw_df, detected_type), detected_type,
                      clean_data(raw_df, detected_type, "kept"))

\* Lines 483-525; a file pd.read_csv cannot read raises into the handler
load_data_file(file, explicit) ==
    IF ~file.readable
    THEN NotLoaded(<<Dialog("showerror", "Load Error", "Error loading file", <<>>)>>,
                   <<"read_csv">>)
    ELSE load_detected(file.df,
            IF explicit = "" THEN validate_csv_structure(file.df).data_type
            ELSE explicit)

-----------------------------------------------------------------------------
(* One call of DataTypeDetector.validate_csv_structure on a read table *)

\* The Date cells of the sampled tables: none, a date, text that is no date,
\* an empty cell before a date, and five dates before a text that is no date
DateSamples ==
    {<<>>, <<Str(T_2024_01_05)>>, <<Str(<<"x">>)>>, <<NaN, Str(T_2024_01_03)>>,
     <<Str(T_2024_01_03), Str(T_2024_01_03), Str(T_2024_01_03), Str(T_2024_01_05),
       Str(T_2024_01_05), Str(<<"x">>)>>}

\* The headers: every sub-list of the pool, and one with every required and
\* optional column of a drops file
ValidateColumnLists == ColumnLists \cup {REQUIRED_COLUMNS_DROP \o OPTIONAL_COLUMNS}

ValidateTables ==
    {DataFrame(cols,
        [i \in 1..Len(dates) |->
            [idx |-> i - 1,
             cells |-> [c \in Range(cols) |->
                           IF c = DATE_COL THEN dates[i] ELSE Num(100)]]]) :
        cols \in ValidateColumnLists, dates \in DateSamples}

InitValidate ==
    /\ TabInit
    /\ dialogs = <<>>
    /\ arg_df \in ValidateTables
    /\ arg_type = "drops"
    /\ arg_columns = <<>>
    /\ pc = "call"
    /\ ret = None
    /\ trace = <<>>
    /\ lru_cache = <<>>

ValidateCsvStructure ==
    /\ pc = "call"
    /\ ret' = validate_csv_structure(arg_df)
    /\ pc' = "done"
    /\ UNCHANGED <<tab_vars, dialogs, arg_df, arg_type, arg_columns, trace, lru_cache>>

NextValidate == ValidateCsvStructure

SpecValidate == InitValidate /\ [][NextValidate]_vars

-----------------------------------------------------------------------------
(* _convert_numeric_columns on generated tables *)

\* The cells of a raw numeric column: percentage texts with the sign at the
\* end, with blanks around it, inside the number, before it and doubled;
\* a plain number text, text that is no number, an empty cell, a float
PercentCells ==
    {Str(<<"3", ".", "4", "5", "%">>), Str(<<" ", "-", "2", ".", "1", " ", "%", " ">>),
     Str(<<"3", "%", "4">>), Str(<<"%", "5">>), Str(<<"5", "%", "%">>),
     Str(<<"5", "0">>), Str(<<"x">>), NaN, Num(50)}

\* The column lists of the tables handed to _convert_numeric_columns: the
\* Date column, already Timestamps, the primary column, and VIX or not
ConvertLayouts == {<<DATE_COL, DROP_PRIMARY_COL>>, <<DATE_COL, GAIN_PRIMARY_COL, "VIX">>}

ConvertRowCells(cols) ==
    {f \in [Range(cols) -> PercentCells \cup OtherCells \cup {MakeDate(2024, 1, 3)}] :
        \A c \in Range(cols) :
            f[c] \in (IF c = DATE_COL THEN {MakeDate(2024, 1, 3)}
                      ELSE IF c = "VIX" THEN OtherCells ELSE PercentCells)}

ConvertTables ==
    UNION {{DataFrame(cols, Labelled(rws)) :
                rws \in {x \in UNION {[1..n -> ConvertRowCells(cols)] : n \in 1..MaxRows} :
                            WellTyped(cols, x)}} :
           cols \in ConvertLayouts}

InitConvert ==
    /\ TabInit
    /\ dialogs = <<>>
    /\ arg_df \in ConvertTables
    /\ arg_type = detect_data_type_from_columns(arg_df.columns)
    /\ arg_columns = <<>>
    /\ pc = "call"
    /\ ret = None
    /\ trace = <<>>
    /\ lru_cache = <<>>

ConvertNumericColumns ==
    /\ pc = "call"
    /\ ret' = convert_numeric_columns(arg_df, primary_col_of(arg_type))
    /\ pc' = "done"
    /\ UNCHANGED <<tab_vars, dialogs, arg_df, arg_type, arg_columns, trace, lru_cache>>

NextConvert == ConvertNumericColumns

SpecConvert == InitConvert /\ [][NextConvert]_vars

-----------------------------------------------------------------------------
(* DataProcessor.get_numeric_columns and the cache of its results *)

\* The column names of the tables it is called on
NumericPool == <<"Date", "Drop (%)", "VIX", "Volume", "(%) vix">>

\* The characters of a column name
chars(name) ==
    CASE name = "Date" -> <<"D", "a", "t", "e">>
      [] name = "Drop (%)" -> <<"D", "r", "o", "p", " ", "(", "%", ")">>
      [] name = "VIX" -> <<"V", "I", "X">>
      [] name = "Volume" -> <<"V", "o", "l", "u", "m", "e">>
      [] name = "(%) vix" -> <<"(", "%", ")", " ", "v", "i", "x">>

\* str.endswith
endswith(text, suffix) ==
    /\ Len(text) >= Len(suffix)
    /\ SubSeq(text, Len(text) - Len(suffix) + 1, Len(text)) = suffix

\* The loop of _get_numeric_columns: the names it appends, in their order
RECURSIVE numeric_cols(_)
numeric_cols(columns) ==
    IF columns = <<>> THEN <<>>
    ELSE (IF \/ endswith(chars(Head(columns)), <<"(", "%", ")">>)
             \/ Head(columns) \in {"VIX", "RSI", "ATR", "Volume"}
          THEN <<Head(columns)>> ELSE <<>>)
         \o numeric_cols(Tail(columns))

\* _get_numeric_columns without its cache
get_numeric_columns_wrapped(df_hash, columns_tuple) == numeric_cols(columns_tuple)

\* The values a hash takes here. Python's hash of a tuple is an integer of
\* fixed width, equal for equal tuples and, for strings, seeded anew in
\* every process; the model takes a hash so narrow that tuples collide.
HashValues == 0..1

RECURSIVE IndexIn(_, _)
IndexIn(s, x) == IF Head(s) = x THEN 1 ELSE 1 + IndexIn(Tail(s), x)

\* hash(tuple(df.columns) + (len(df),))
hash(columns, length) ==
    (SumSeq([i \in 1..Len(columns) |-> IndexIn(NumericPool, columns[i])]) + length)
        % Cardinality(HashValues)

\* The entries the cache keeps (functools.lru_cache(maxsize=32) in the
\* source)
MaxSize == 2

\* A cache keyed by the hash alone
cache_key_by_hash(df_hash, columns_tuple) == <<df_hash>>

\* The key lru_cache makes of the arguments of a call: all of them
cache_key(df_hash, columns_tuple) == <<df_hash, columns_tuple>>

\* One call through lru_cache: a hit returns the stored result and makes the
\* entry the latest; a miss computes, stores and evicts the oldest entry
\* beyond maxsize
lru_call(cache, key, df_hash, columns_tuple) ==
    LET hit == SelectSeq(cache, LAMBDA e : e.key = key)
        rest == SelectSeq(cache, LAMBDA e : e.key # key)
        made == [key |-> key,
                 result |-> get_numeric_columns_wrapped(df_hash, columns_tuple)]
        kept == <<made>> \o cache
    IN  IF hit # <<>>
        THEN [result |-> hit[1].result, cache |-> <<hit[1]>> \o rest]
        ELSE [result |-> made.result,
              cache |-> IF Len(kept) > MaxSize THEN SubSeq(kept, 1, MaxSize) ELSE kept]

\* DataProcessor.get_numeric_columns
get_numeric_columns(cache, df) ==
    lru_call(cache, cache_key(hash(df.columns, Len(df.rows)), df.columns),
             hash(df.columns, Len(df.rows)), df.columns)

\* Column lists of up to two names of the pool, in either order
NumericLayouts ==
    {<<>>} \cup {<<a>> : a \in Range(NumericPool)}
           \cup {l \in {<<a, b>> : a, b \in Range(NumericPool)} : l[1] # l[2]}

\* Tables of these columns with 0..MaxRows rows; their cells are not read
NumericTables ==
    {DataFrame(cols, Labelled([i \in 1..n |-> [c \in Range(cols) |-> NaN]])) :
        cols \in NumericLayouts, n \in 0..MaxRows}

InitNumeric ==
    /\ TabInit
    /\ dialogs = <<>>
    /\ arg_df \in NumericTables
    /\ arg_type = "drops"
    /\ arg_columns = <<>>
    /\ pc = "call"
    /\ ret = <<>>
    /\ trace = <<>>
    /\ lru_cache = <<>>

\* What a call through the cache leaves: its result and the cache
Cached(r) ==
    /\ ret' = r.result
    /\ lru_cache' = r.cache

\* One call of get_numeric_columns on the table at hand
GetNumericColumns ==
    /\ pc = "call"
    /\ Cached(get_numeric_columns(lru_cache, arg_df))
    /\ pc' = "done"
    /\ UNCHANGED <<tab_vars, dialogs, arg_df, arg_type, arg_columns, trace>>

\* The caller comes with another table: other columns, another length
NextTable ==
    /\ pc = "done"
    /\ arg_df' \in NumericTables
    /\ pc' = "call"
    /\ ret' = <<>>
    /\ UNCHANGED <<tab_vars, dialogs, arg_type, arg_columns, trace, lru_cache>>

NextNumeric == GetNumericColumns \/ NextTable

SpecNumeric == InitNumeric /\ [][NextNumeric]_vars

-----------------------------------------------------------------------------
(* The files of the model *)

\* A raw table from its rows, each the list of its cells in column order
Table(cols, cellrows) ==
    DataFrame(cols,
        [i \in 1..Len(cellrows) |->
            [idx |-> i - 1,
             cells |-> [c \in Range(cols) |->
                 cellrows[i][CHOOSE n \in 1..Len(cols) : cols[n] = c]]]])

\* The ISO text of a day of January 2024
Jan2024(d1, d2) == <<"2", "0", "2", "4", "-", "0", "1", "-", d1, d2>>

\* Five drops from Tuesday 2024-01-02 to Saturday 2024-01-06, out of date
\* order, with one VIX and one 1-day recovery missing
DropsTable ==
    Table(<<DATE_COL, DROP_PRIMARY_COL, "VIX", "1D (%)">>,
          << <<Str(Jan2024("0", "4")), Num(200), NaN, Num(120)>>,
             <<Str(Jan2024("0", "2")), Num(50), Num(1500), Num(50)>>,
             <<Str(Jan2024("0", "3")), Num(100), Num(2500), Num(0 - 30)>>,
             <<Str(Jan2024("0", "6")), Num(400), Num(3500), Num(200)>>,
             <<Str(Jan2024("0", "5")), Num(300), Num(3000), NaN>> >>)

\* Three gains as percentage texts, one of them no number; no indicator and
\* no recovery column
GainsTable ==
    Table(<<DATE_COL, GAIN_PRIMARY_COL>>,
          << <<Str(Jan2024("0", "3")), Str(<<"2", ".", "5", "%">>)>>,
             <<Str(Jan2024("0", "5")), Str(<<"x">>)>>,
             <<Str(Jan2024("0", "4")), Str(<<"0", ".", "0", "5", "%">>)>> >>)

\* Three later drops, of Tuesday 2024-01-09, Sunday 2024-01-07 and Monday
\* 2024-01-08: the file that replaces the drops table
LaterDropsTable ==
    Table(<<DATE_COL, DROP_PRIMARY_COL>>,
          << <<Str(Jan2024("0", "9")), Num(250)>>,
             <<Str(Jan2024("0", "7")), Num(350)>>,
             <<Str(Jan2024("0", "8")), Num(150)>> >>)

File(name, readable, df) == [name |-> name, readable |-> readable, df |-> df]

Files ==
    {File("drops.csv", TRUE, DropsTable),
     File("later_drops.csv", TRUE, LaterDropsTable),
     File("gains.csv", TRUE, GainsTable),
     \* neither primary column
     File("unknown.csv", TRUE,
          Table(<<DATE_COL, "Type">>, << <<Str(Jan2024("0", "3")), Str(<<"x">>)>> >>)),
     \* no Date column
     File("nodate.csv", TRUE,
          Table(<<DROP_PRIMARY_COL>>, << <<Num(100)>> >>)),
     \* no date parses
     File("baddates.csv", TRUE,
          Table(<<DATE_COL, DROP_PRIMARY_COL>>,
                << <<Str(<<"x">>), Num(100)>>, <<NaN, Num(200)>> >>)),
     \* no primary value is a number
     File("badprimary.csv", TRUE,
          Table(<<DATE_COL, DROP_PRIMARY_COL>>,
                << <<Str(Jan2024("0", "3")), Str(<<"x">>)>>,
                   <<Str(Jan2024("0", "4")), NaN>> >>)),
     \* no row has both a date and a number
     File("nosurvivor.csv", TRUE,
          Table(<<DATE_COL, DROP_PRIMARY_COL>>,
                << <<Str(<<"x">>), Str(<<"1", ".", "0">>)>>,
                   <<Str(Jan2024("0", "3")), Str(<<"x">>)>> >>)),
     \* not a file pd.read_csv can read
     File("unreadable.csv", FALSE, None)}

\* The calls of _load_data_file: explicit_data_type "" is the call without
\* it (the Load CSV button), 'drops' and 'gains' are what the main window
\* passes.  A file is loaded under the type it is detected as and, the two
\* event files, under each type by name.
Loads ==
    {[file |-> f, explicit |-> ""] : f \in Files}
    \cup {[file |-> f, explicit |-> e] :
            f \in {g \in Files : g.name \in {"drops.csv", "gains.csv"}},
            e \in Kinds}

\* What each call of the model decides before it touches the tab
load_results == [call \in Loads |-> load_data_file(call.file, call.explicit)]

-----------------------------------------------------------------------------
(* What the user can put into the filter widgets *)

T_0_1 == <<"0", ".", "1">>

MinTexts == {<<>>, T_0_1, <<"1", ".", "0">>, <<"x">>}

MaxTexts == {<<>>, <<"3", ".", "0">>, <<"x">>}

RecoveryTexts == {<<>>, <<"0">>, <<"x">>}

Periods == {"1D", "1W"}

DateFromTexts == {<<>>, Jan2024("0", "3"), <<"x">>, <<"N", "a", "T">>}

DateToTexts == {<<>>, Jan2024("0", "5"), <<"x">>}

\* The indicator rows the model edits, and what it puts into one
EditableIndicators == {"VIX"}

ConditionChoices ==
    {[enabled |-> FALSE, min |-> <<>>, max |-> <<>>],
     [enabled |-> FALSE, min |-> <<"2", "0">>, max |-> <<>>],
     [enabled |-> TRUE, min |-> <<"2", "0">>, max |-> <<>>],
     [enabled |-> TRUE, min |-> <<>>, max |-> <<"3", "0">>],
     [enabled |-> TRUE, min |-> <<"2", "0">>, max |-> <<"3", "0">>],
     [enabled |-> TRUE, min |-> <<"x">>, max |-> <<>>],
     [enabled |-> TRUE, min |-> <<"2", "0">>, max |-> <<"x">>]}

\* The day-of-week checkboxes: all checked, none, all but Friday
DayChoices ==
    {[d \in Range(Days) |-> TRUE], [d \in Range(Days) |-> FALSE],
     [d \in Range(Days) |-> d # "Fri"]}

\* The widgets as the tab creates them (lines 310-381)
DefaultUI ==
    [min |-> T_0_1, max |-> <<>>, rec |-> <<>>, period |-> "1D",
     cond |-> [i \in Range(Indicators) |->
                  [enabled |-> FALSE, min |-> <<>>, max |-> <<>>]],
     from |-> <<>>, to |-> <<>>, dow |-> [d \in Range(Days) |-> TRUE]]

\* The filter cards of the tab and the widgets of each
\* (_create_threshold_filters, _create_recovery_filters,
\* _create_market_condition_filters, _create_temporal_filters)
Cards == <<{"min", "max"}, {"rec", "period"}, {"cond"}, {"from", "to", "dow"}>>

\* The most cards that hold a widget differing from its default at one time
MaxEdited == 1

Edited(ui) ==
    Cardinality({c \in 1..Len(Cards) : \E f \in Cards[c] : ui[f] # DefaultUI[f]})

-----------------------------------------------------------------------------
(* The analysis tab as a state machine: the user edits the filter widgets,
   loads files, switches the mode and applies the filters *)

Init ==
    /\ TabInit
    /\ dialogs = <<>>
    /\ NoCall

\* The user has edited a widget: no handler runs
Edit(ui) ==
    /\ Edited(ui) <= MaxEdited
    /\ ui # CurrentUI
    /\ min_threshold_var' = ui.min
    /\ max_threshold_var' = ui.max
    /\ recovery_threshold' = ui.rec
    /\ recovery_period' = ui.period
    /\ condition_vars' = ui.cond
    /\ date_from_var' = ui.from
    /\ date_to_var' = ui.to
    /\ dow_vars' = ui.dow
    /\ last_op' = "edit"
    /\ file_path' = ""
    /\ explicit_data_type' = ""
    /\ dialogs' = <<>>
    /\ trace' = <<>>
    /\ UNCHANGED lru_cache
    /\ UNCHANGED <<raw_df_drops, raw_df_gains, processed_df_drops,
                   processed_df_gains, current_analysis_mode, mode_var,
                   filtered_df, arg_df, arg_type, arg_columns, pc, ret>>

SetMinThreshold == \E t \in MinTexts : Edit([CurrentUI EXCEPT !.min = t])

SetMaxThreshold == \E t \in MaxTexts : Edit([CurrentUI EXCEPT !.max = t])

SetRecoveryThreshold == \E t \in RecoveryTexts : Edit([CurrentUI EXCEPT !.rec = t])

SetRecoveryPeriod == \E p \in Periods : Edit([CurrentUI EXCEPT !.period = p])

SetCondition ==
    \E i \in EditableIndicators : \E v \in ConditionChoices :
        Edit([CurrentUI EXCEPT !.cond[i] = v])

SetDateFrom == \E t \in DateFromTexts : Edit([CurrentUI EXCEPT !.from = t])

SetDateTo == \E t \in DateToTexts : Edit([CurrentUI EXCEPT !.to = t])

SetDays == \E d \in DayChoices : Edit([CurrentUI EXCEPT !.dow = d])

\* A load that stores the file's tables and clears those of the other kind
LoadStoreClearsOther(r, applied) ==
    /\ raw_df_drops' = IF r.type = "drops" THEN r.raw ELSE None
    /\ processed_df_drops' = IF r.type = "drops" THEN r.cleaned ELSE None
    /\ raw_df_gains' = IF r.type = "drops" THEN None ELSE r.raw
    /\ processed_df_gains' = IF r.type = "drops" THEN None ELSE r.cleaned
    /\ mode_var' = r.type
    /\ current_analysis_mode' = r.type
    /\ min_threshold_var' = T_0_1
    /\ filtered_df' = IF applied.stored THEN applied.filtered ELSE r.cleaned
    /\ dialogs' = r.dialogs \o applied.dialogs
    /\ trace' = r.trace \o <<"set_analysis_mode">> \o applied.trace
    /\ UNCHANGED lru_cache
    /\ UNCHANGED <<max_threshold_var, recovery_threshold, recovery_period,
                   condition_vars, date_from_var, date_to_var, dow_vars>>

\* _load_data_file, lines 499-517: the tables are stored, the mode is set to
\* the file's type (_set_analysis_mode makes the whole cleaned table the
\* filtered one), the min threshold is reset and the filters are applied
LoadStore(r, applied) ==
    /\ raw_df_drops' = IF r.type = "drops" THEN r.raw ELSE raw_df_drops
    /\ processed_df_drops' = IF r.type = "drops" THEN r.cleaned ELSE processed_df_drops
    /\ raw_df_gains' = IF r.type = "drops" THEN raw_df_gains ELSE r.raw
    /\ processed_df_gains' = IF r.type = "drops" THEN processed_df_gains ELSE r.cleaned
    /\ mode_var' = r.type
    /\ current_analysis_mode' = r.type
    /\ min_threshold_var' = T_0_1
    /\ filtered_df' = IF applied.stored THEN applied.filtered ELSE r.cleaned
    /\ dialogs' = r.dialogs \o applied.dialogs
    /\ trace' = r.trace \o <<"set_analysis_mode">> \o applied.trace
    /\ UNCHANGED lru_cache
    /\ UNCHANGED <<max_threshold_var, recovery_threshold, recovery_period,
                   condition_vars, date_from_var, date_to_var, dow_vars>>

\* _load_data_file on a path where it returns before line 499
LoadFail(r) ==
    /\ dialogs' = r.dialogs
    /\ trace' = r.trace
    /\ UNCHANGED lru_cache
    /\ UNCHANGED <<raw_df_drops, raw_df_gains, processed_df_drops,
                   processed_df_gains, current_analysis_mode, mode_var,
                   filtered_df, min_threshold_var, max_threshold_var,
                   recovery_threshold, recovery_period, condition_vars,
                   date_from_var, date_to_var, dow_vars>>

LoadOutcome(r) ==
    IF r.stored
    THEN LoadStore(r, apply_filters(r.cleaned, r.type, [CurrentUI EXCEPT !.min = T_0_1]))
    ELSE LoadFail(r)

LoadDataFile ==
    \E call \in Loads :
        /\ LoadOutcome(load_results[call])
        /\ last_op' = "load"
        /\ file_path' = call.file.name
        /\ explicit_data_type' = call.explicit
        /\ UNCHANGED <<arg_df, arg_type, arg_columns, pc, ret>>

\* The mode combobox: a selection (of either value) runs _set_analysis_mode
SetAnalysisMode ==
    \E m \in Kinds :
        /\ mode_var' = m
        /\ current_analysis_mode' = m
        /\ filtered_df' = get_current_df(m, processed_df_drops, processed_df_gains)
        /\ last_op' = "mode"
        /\ file_path' = ""
        /\ explicit_data_type' = ""
        /\ dialogs' = <<>>
        /\ trace' = <<"set_analysis_mode">>
        /\ UNCHANGED lru_cache
        /\ UNCHANGED <<raw_df_drops, raw_df_gains, processed_df_drops,
                       processed_df_gains, min_threshold_var, max_threshold_var,
                       recovery_threshold, recovery_period, condition_vars,
                       date_from_var, date_to_var, dow_vars,
                       arg_df, arg_type, arg_columns, pc, ret>>

ApplyOutcome(applied) ==
    /\ filtered_df' = IF applied.stored THEN applied.filtered ELSE filtered_df
    /\ dialogs' = applied.dialogs
    /\ trace' = applied.trace
    /\ UNCHANGED lru_cache

\* The Apply Filters button: _apply_filters_and_update
ApplyFiltersAndUpdate ==
    /\ ApplyOutcome(apply_filters(
            get_current_df(current_analysis_mode, processed_df_drops,
                           processed_df_gains),
            current_analysis_mode, CurrentUI))
    /\ last_op' = "apply"
    /\ file_path' = ""
    /\ explicit_data_type' = ""
    /\ UNCHANGED <<raw_df_drops, raw_df_gains, processed_df_drops,
                   processed_df_gains, current_analysis_mode, mode_var,
                   min_threshold_var, max_threshold_var, recovery_threshold,
                   recovery_period, condition_vars, date_from_var, date_to_var,
                   dow_vars, arg_df, arg_type, arg_columns, pc, ret>>

Next ==
    \/ SetMinThreshold
    \/ SetMaxThreshold
    \/ SetRecoveryThreshold
    \/ SetRecoveryPeriod
    \/ SetCondition
    \/ SetDateFrom
    \/ SetDateTo
    \/ SetDays
    \/ LoadDataFile
    \/ SetAnalysisMode
    \/ ApplyFiltersAndUpdate

Spec == Init /\ [][Next]_vars

-----------------------------------------------------------------------------
(* Summary statistics: DataProcessor.generate_summary_stats and its callers
   in the analysis tab *)

\* One line of a report: its wording and the figures formatted into it.
\* The figures no property reads (the deviation, the median, the
\* percentiles, the ranges of values) are left out of the line.
Line(text, figures) == [text |-> text, figures |-> figures]

\* df[col].dropna()
notna_cells(df, col) == SelectSeq(column(df, col), LAMBDA c : notna(c))

\* col in df.columns and df[col].notna().any()
has_data(df, col) == HasColumn(df, col) /\ notna_cells(df, col) # <<>>

\* Series.min() and Series.max() of Timestamps, nulls skipped
date_min(s) == CHOOSE d \in Range(s) : \A e \in Range(s) : DateLE(d, e)

date_max(s) == CHOOSE d \in Range(s) : \A e \in Range(s) : DateLE(e, d)

\* df['Magnitude Category'].cat.categories
magnitude_categories == <<"< 1%", "1-2%", "2-3%", "3-5%", "> 5%">>

\* (df['Magnitude Category'] == cat).sum(), one line per category
magnitude_lines(df) ==
    IF HasColumn(df, "Magnitude Category")
    THEN <<Line("", <<>>), Line("  By Magnitude:", <<>>)>>
         \o [n \in 1..Len(magnitude_categories) |->
                Line("    " \o magnitude_categories[n],
                     <<Len(SelectSeq(column(df, "Magnitude Category"),
                           LAMBDA c : c.k = "cat" /\ c.v = magnitude_categories[n]))>>)]
    ELSE <<>>

\* _get_primary_stats
get_primary_stats(df, primary_col, event_name) ==
    IF has_data(df, primary_col)
    THEN <<Line(event_name \o " Statistics:", <<>>),
           Line("  Count: ", <<Len(notna_cells(df, primary_col))>>),
           Line("  Mean: ", <<mean_of(notna_cells(df, primary_col))>>),
           Line("  Median: ", <<>>),
           Line("  Range: ", <<>>),
           Line("  Percentiles: ", <<>>)>>
         \o magnitude_lines(df)
    ELSE <<>>

\* One line for each of the columns, with the count and the mean of its
\* non-null cells
column_lines(df, cols) ==
    [n \in 1..Len(cols) |->
        Line("  " \o cols[n],
             <<Len(notna_cells(df, cols[n])), mean_of(notna_cells(df, cols[n]))>>)]

\* The lines of a section, or the one line that says it has none
lines_or(lines, none) == IF lines # <<>> THEN lines ELSE <<Line(none, <<>>)>>

\* _get_recovery_stats: the periods that have data, in the order of
\* RECOVERY_PERIODS (which is the order of period_order)
get_recovery_stats(df) ==
    <<Line("", <<>>), Line("Recovery Analysis:", <<>>)>>
    \o lines_or(column_lines(df, SelectSeq(RECOVERY_PERIODS,
                                           LAMBDA c : has_data(df, c))),
                "  No recovery data available")

\* _get_market_condition_stats
get_market_condition_stats(df) ==
    <<Line("", <<>>), Line("Market Conditions:", <<>>)>>
    \o lines_or(column_lines(df, SelectSeq(MARKET_INDICATORS,
                                           LAMBDA c : has_data(df, c))),
                "  No market condition data available")

\* An exception that leaves the call, in place of the lines of a text
Raise(exception) == <<Line("raise " \o exception, <<>>)>>

\* df[DATE_COL].min().strftime('%Y-%m-%d') of a column with no date in it:
\* min() skips the nulls and is itself null, NaT for a column of Timestamps
\* and the float nan otherwise; NaT.strftime raises ValueError and a float
\* has no strftime
strftime_of_null(s) ==
    IF \E i \in 1..Len(s) : s[i].k = "nat" THEN Raise("ValueError")
    ELSE Raise("AttributeError")

\* DataProcessor.generate_summary_stats: the lines of the returned text
generate_summary_stats(df, analysis_mode) ==
    IF df.is_none \/ empty(df)
    THEN <<Line("No data available for statistics.", <<>>)>>
    ELSE IF notna_cells(df, DATE_COL) = <<>>
    THEN strftime_of_null(column(df, DATE_COL))
    ELSE <<Line("Date Range: ", <<date_min(notna_cells(df, DATE_COL)),
                                  date_max(notna_cells(df, DATE_COL))>>),
           Line("", <<>>)>>
         \o get_primary_stats(df, primary_col_of(analysis_mode),
                              IF analysis_mode = "gains" THEN "Gain" ELSE "Drop")
         \o get_recovery_stats(df) \o get_market_condition_stats(df)

\* EnhancedAnalysisTab._generate_summary_stats
tab_generate_summary_stats(df, analysis_mode) ==
    IF df.is_none \/ empty(df)
    THEN <<Line("No data available", <<>>)>>
    ELSE generate_summary_stats(df, analysis_mode)

\* The tab as a load left it, or with nothing loaded yet
StatsLoads ==
    {load_results[call] :
        call \in {c \in Loads : /\ c.explicit = ""
                                /\ c.file.name \in {"drops.csv", "gains.csv",
                                                    "unreadable.csv"}}}

\* The filtered tables the filters can leave of a cleaned table: any of its
\* rows, in its order
FilteredTables(cleaned) ==
    IF cleaned.is_none THEN {None}
    ELSE {take(cleaned, mask) : mask \in SUBSET all_true(cleaned)}

Holding(r) ==
    /\ raw_df_drops = IF r.type = "drops" THEN r.raw ELSE None
    /\ processed_df_drops = IF r.type = "drops" THEN r.cleaned ELSE None
    /\ raw_df_gains = IF r.type = "gains" THEN r.raw ELSE None
    /\ processed_df_gains = IF r.type = "gains" THEN r.cleaned ELSE None
    /\ current_analysis_mode = IF r.stored THEN r.type ELSE "drops"
    /\ mode_var = IF r.stored THEN r.type ELSE "drops"
    /\ filtered_df \in FilteredTables(r.cleaned)

\* Tables with rows whose every cell is null: the Date column holds null
\* Timestamps or, never converted, null floats
AllNullTables ==
    {DataFrame(cols, [i \in 1..n |->
                        [idx |-> i - 1,
                         cells |-> [c \in Range(cols) |->
                                       IF c = DATE_COL THEN d ELSE NaN]]]) :
        cols \in {<<DATE_COL, DROP_PRIMARY_COL>>,
                  <<DATE_COL, GAIN_PRIMARY_COL, "VIX", "1D (%)">>},
        n \in 1..MaxRows, d \in {NaT, NaN}}

InitStats ==
    /\ \E r \in StatsLoads : Holding(r)
    /\ min_threshold_var = DefaultUI.min
    /\ max_threshold_var = DefaultUI.max
    /\ recovery_threshold = DefaultUI.rec
    /\ recovery_period = DefaultUI.period
    /\ condition_vars = DefaultUI.cond
    /\ date_from_var = DefaultUI.from
    /\ date_to_var = DefaultUI.to
    /\ dow_vars = DefaultUI.dow
    /\ last_op = "init"
    /\ file_path = ""
    /\ explicit_data_type = ""
    /\ dialogs = <<>>
    /\ arg_df \in AllNullTables
    /\ arg_type = detect_data_type_from_columns(arg_df.columns)
    /\ arg_columns = <<>>
    /\ pc = "call"
    /\ ret = <<>>
    /\ trace = <<>>
    /\ lru_cache = <<>>

\* One call: the text it got or showed, as lines
Called(op, lines) ==
    /\ pc = "call"
    /\ ret' = lines
    /\ last_op' = op
    /\ pc' = "done"
    /\ UNCHANGED <<raw_df_drops, raw_df_gains, processed_df_drops,
                   processed_df_gains, current_analysis_mode, mode_var,
                   filtered_df, min_threshold_var, max_threshold_var,
                   recovery_threshold, recovery_period, condition_vars,
                   date_from_var, date_to_var, dow_vars, file_path,
                   explicit_data_type, dialogs, arg_df, arg_type, arg_columns,
                   trace, lru_cache>>

\* DataProcessor.generate_summary_stats called on the filtered table
GenerateSummaryStats ==
    Called("generate_summary_stats",
           generate_summary_stats(filtered_df, current_analysis_mode))

\* _update_statistics_display: the text put into the statistics widget
UpdateStatisticsDisplay ==
    Called("update_statistics_display",
           tab_generate_summary_stats(filtered_df, current_analysis_mode))

\* _export_excel with a file name chosen: the row of the Summary sheet
ExportExcel ==
    /\ ~filtered_df.is_none
    /\ Called("export_excel",
              tab_generate_summary_stats(filtered_df, current_analysis_mode))

\* _update_event_list: the text put into the summary widget
UpdateEventList ==
    Called("update_event_list",
           IF filtered_df.is_none \/ empty(filtered_df)
           THEN <<Line("No events found matching the current criteria", <<>>)>>
           ELSE <<Line("Found matching events", <<Len(filtered_df.rows)>>)>>
                \o tab_generate_summary_stats(filtered_df, current_analysis_mode))

\* DataProcessor.generate_summary_stats called on a table of null cells
SummaryOfNulls ==
    Called("summary_of_nulls", generate_summary_stats(arg_df, arg_type))

NextStats ==
    \/ GenerateSummaryStats
    \/ SummaryOfNulls
    \/ UpdateStatisticsDisplay
    \/ ExportExcel
    \/ UpdateEventList

SpecStats == InitStats /\ [][NextStats]_vars

-----------------------------------------------------------------------------
(* Properties of clean_data, checked under SpecClean *)

CleanReturned == pc = "done" /\ ~ret.is_none

PrimaryOf(data_type) ==
    IF data_type = "gains" THEN GAIN_PRIMARY_COL ELSE DROP_PRIMARY_COL

\* C1: whenever clean_data returns a table, every row of it has a non-null
\* value in the kind's primary column and a valid, non-null Date.
C1_NoNullPrimaryOrDate ==
    CleanReturned =>
        \A i \in 1..Len(ret.rows) :
            /\ ret.rows[i].cells[PrimaryOf(arg_type)].k = "num"
            /\ ret.rows[i].cells[DATE_COL].k = "date"

\* A table is returned although the raw table had rows to remove
C1_Witness ==
    /\ CleanReturned
    /\ Len(ret.rows) >= 1
    /\ Len(ret.rows) < Len(arg_df.rows)

\* C2: whenever clean_data returns a table, its rows are in ascending Date
\* order and their index labels are 0, 1, 2, ... whatever the input order.
C2_SortedAndReindexed ==
    CleanReturned =>
        /\ \A i \in 1..(Len(ret.rows) - 1) :
              DateLE(ret.rows[i].cells[DATE_COL], ret.rows[i + 1].cells[DATE_COL])
        /\ \A i \in 1..Len(ret.rows) : ret.rows[i].idx = i - 1

\* The raw table held the later date first, and both rows are returned
C2_Witness ==
    /\ CleanReturned
    /\ Len(ret.rows) = 2
    /\ Len(arg_df.rows) >= 2
    /\ arg_df.rows[1].cells[DATE_COL] = Str(T_2024_01_05)
    /\ arg_df.rows[2].cells[DATE_COL] = Str(T_2024_01_03)
    /\ ret.rows[1].cells[DATE_COL] = Date(2024, 1, 3)

\* What the raw table is, said without the pipeline -----------------------

RequiredMissing(df, data_type) ==
    ~HasColumn(df, DATE_COL) \/ ~HasColumn(df, PrimaryOf(data_type))

\* The cell is a date under none of the parsing strategies
Unparseable(c) ==
    \A i \in 1..Len(date_formats) : to_datetime(c, date_formats[i]) = NaT

NoParseableDate(df) ==
    \A i \in 1..Len(df.rows) : Unparseable(df.rows[i].cells[DATE_COL])

\* The cell is a number once a percent sign and blanks are taken away
NumericCell(c) ==
    \/ c.k = "num"
    \/ c.k = "str" /\ float(StrReplace(c.v, "%")).ok
                   /\ float(StrReplace(c.v, "%")).cell.k = "num"

\* No row has both a date and a number in the primary column
NoUsableRow(df, data_type) ==
    \A i \in 1..Len(df.rows) :
        Unparseable(df.rows[i].cells[DATE_COL])
        \/ ~NumericCell(df.rows[i].cells[PrimaryOf(data_type)])

FailureCondition(df, data_type) ==
    IF RequiredMissing(df, data_type) THEN "required-columns-missing"
    ELSE IF NoParseableDate(df) THEN "date-unparseable"
    ELSE IF NoUsableRow(df, data_type) THEN "no-valid-primary-data"
    ELSE "none"

C9_DateUnparseablePath ==
    (pc = "done" /\ ~RequiredMissing(arg_df, arg_type) /\ NoParseableDate(arg_df)) =>
        /\ ret = None
        /\ dialogs = <<Dialog("showwarning", "Data Warning",
                              "No valid date entries found", <<>>)>>
        /\ trace = <<"required_cols", "clean_date_column">>

\* A table with rows, none of them with a parseable date, has been cleaned
C9_Witness ==
    /\ pc = "done"
    /\ ~RequiredMissing(arg_df, arg_type)
    /\ NoParseableDate(arg_df)
    /\ Len(arg_df.rows) = MaxRows
    /\ \E i \in 1..Len(arg_df.rows) : arg_df.rows[i].cells[DATE_COL].k = "str"

-----------------------------------------------------------------------------
(* Properties of the type detector, checked under SpecDetect *)

-----------------------------------------------------------------------------
(* Properties of the analysis tab, checked under Spec *)

\* The cleaned table of the current analysis mode
CurrentDF ==
    get_current_df(current_analysis_mode, processed_df_drops, processed_df_gains)

\* The text is not empty and is no number
InvalidNumber(text) == text # <<>> /\ ~float(text).ok

\* The last handler stored a filtered table it computed from the filters
ApplyCompleted == trace # <<>> /\ trace[Len(trace)] = "store"

\* The cell is within a bound given as text; an empty text, or one that is
\* no number, binds nothing
LowerOK(c, text) == (text # <<>> /\ float(text).ok) => GE(c, float(text).cell)

UpperOK(c, text) == (text # <<>> /\ float(text).ok) => LE(c, float(text).cell)

\* The row satisfies every active constraint of the widgets: the primary
\* thresholds, the bounds of each enabled indicator whose column is there,
\* the date range where its texts are dates, the checked weekdays, and the
\* recovery threshold where the period's column is there
Satisfies(r, df, mode, ui) ==
    /\ LowerOK(r.cells[PrimaryOf(mode)], ui.min)
    /\ UpperOK(r.cells[PrimaryOf(mode)], ui.max)
    /\ \A n \in 1..Len(Indicators) :
          (ui.cond[Indicators[n]].enabled /\ HasColumn(df, Indicators[n])) =>
              /\ LowerOK(r.cells[Indicators[n]], ui.cond[Indicators[n]].min)
              /\ UpperOK(r.cells[Indicators[n]], ui.cond[Indicators[n]].max)
    /\ (ui.from # <<>> /\ ~Unparseable(Str(ui.from))) =>
          DateLE(to_datetime(Str(ui.from), ""), r.cells[DATE_COL])
    /\ (ui.to # <<>> /\ ~Unparseable(Str(ui.to))) =>
          DateLE(r.cells[DATE_COL], to_datetime(Str(ui.to), ""))
    /\ \E n \in 1..Len(Days) :
          ui.dow[Days[n]] /\ dayofweek(r.cells[DATE_COL]) = n - 1
    /\ HasColumn(df, ui.period \o " (%)") =>
          LowerOK(r.cells[ui.period \o " (%)"], ui.rec)

\* The rows of df that satisfy the constraints, in df's order, labels kept
Expected(df, mode, ui) ==
    IF df.is_none THEN None
    ELSE [df EXCEPT !.rows = SelectSeq(@, LAMBDA r : Satisfies(r, df, mode, ui))]

\* C3 as stated: the filtered table that applying the filters produces is
\* exactly the rows of the current mode's cleaned table that satisfy every
\* active constraint, the bounds inclusive; a disabled indicator or one whose
\* column is absent removes no row.
C3_FilteredIsConjunction ==
    (last_op = "apply" /\ ApplyCompleted) =>
        filtered_df = Expected(CurrentDF, current_analysis_mode, CurrentUI)

\* C4: when a table is loaded for the current mode and the min, max or
\* recovery threshold text is not empty and no number, applying the filters
\* raises one "Invalid Input" error and stores nothing; with or without a
\* table, the stored filtered table is what it was before the call.
C4_InvalidThresholdAborts ==
    [][(/\ last_op' = "apply"
        /\ \/ InvalidNumber(min_threshold_var)
           \/ InvalidNumber(max_threshold_var)
           \/ InvalidNumber(recovery_threshold))
       => /\ filtered_df' = filtered_df
          /\ ~CurrentDF.is_none =>
                /\ Len(dialogs') = 1
                /\ dialogs'[1].kind = "showerror"
                /\ dialogs'[1].title = "Invalid Input"
                /\ ~ApplyCompleted']_vars

\* The filters were applied with a max threshold that is no number while a
\* filtered table with rows was stored
C4_Witness ==
    /\ last_op = "apply"
    /\ InvalidNumber(max_threshold_var)
    /\ ~CurrentDF.is_none
    /\ ~filtered_df.is_none
    /\ Len(filtered_df.rows) >= 1
    /\ Len(dialogs) = 1
    /\ dialogs[1].title = "Invalid Input"

\* An enabled indicator whose column the current table has
ActiveIndicator(i) == condition_vars[i].enabled /\ HasColumn(CurrentDF, i)

\* C5 as stated: after the filters are applied with text that is no number
\* in the min or max field of an enabled indicator filter, the application
\* has aborted with an "Invalid Input" report.
C5_InvalidIndicatorTextAborts ==
    (/\ last_op = "apply"
     /\ ~CurrentDF.is_none
     /\ \E n \in 1..Len(Indicators) :
           /\ ActiveIndicator(Indicators[n])
           /\ \/ InvalidNumber(condition_vars[Indicators[n]].min)
              \/ InvalidNumber(condition_vars[Indicators[n]].max))
    => /\ ~ApplyCompleted
       /\ \E n \in 1..Len(dialogs) : dialogs[n].title = "Invalid Input"

\* Every numeric filter text is empty or a number
NumbersValid ==
    /\ ~InvalidNumber(min_threshold_var)
    /\ ~InvalidNumber(max_threshold_var)
    /\ ~InvalidNumber(recovery_threshold)
    /\ \A n \in 1..Len(Indicators) :
          /\ ~InvalidNumber(condition_vars[Indicators[n]].min)
          /\ ~InvalidNumber(condition_vars[Indicators[n]].max)

\* The last operation changed what is analysed: a load that stored its
\* tables, a mode selection, or an application of the filters that was not
\* aborted
ChangedAnalysis ==
    \/ last_op = "mode"
    \/ last_op = "load" /\ ApplyCompleted
    \/ last_op = "apply" /\ (ApplyCompleted \/ trace = <<"no_data">>)

\* C6 as stated: after every operation that changes what is analysed, the
\* stored filtered table is the current filter constraints applied to the
\* cleaned table of the current mode.
C6_FilteredFollowsConstraints ==
    (ChangedAnalysis /\ NumbersValid) =>
        \/ CurrentDF.is_none /\ filtered_df.is_none
        \/ /\ ~CurrentDF.is_none
           /\ ~filtered_df.is_none
           /\ \A n \in 1..Len(CurrentDF.rows) :
                 Satisfies(CurrentDF.rows[n], CurrentDF, current_analysis_mode,
                           CurrentUI)
                 <=> \E k \in 1..Len(filtered_df.rows) :
                        filtered_df.rows[k] = CurrentDF.rows[n]

\* The type a call of _load_data_file works under
TypeOf(f, explicit) ==
    IF explicit # "" THEN explicit
    ELSE IF HasColumn(f.df, DROP_PRIMARY_COL) THEN "drops"
    ELSE IF HasColumn(f.df, GAIN_PRIMARY_COL) THEN "gains"
    ELSE "unknown"

\* Why loading the file fails, said from the file alone
LoadFailure(f, explicit) ==
    IF ~f.readable THEN "unreadable"
    ELSE IF TypeOf(f, explicit) = "unknown" THEN "type-unknown"
    ELSE FailureCondition(f.df, TypeOf(f, explicit))

FileNamed(name) == CHOOSE f \in Files : f.name = name

\* C7: a load that fails because the file is unreadable, its type unknown,
\* a required column missing, no date valid or no primary value valid
\* leaves the raw tables, the cleaned tables, the filtered table and the
\* analysis mode as they were.
C7_FailedLoadPreservesState ==
    [][(/\ last_op' = "load"
        /\ LoadFailure(FileNamed(file_path'), explicit_data_type') # "none")
       => UNCHANGED <<raw_df_drops, raw_df_gains, processed_df_drops,
                      processed_df_gains, filtered_df, current_analysis_mode,
                      mode_var>>]_vars

\* A file with no numeric primary value was loaded into a tab that held
\* cleaned drops and a filtered table
C7_Witness ==
    /\ last_op = "load"
    /\ file_path = "badprimary.csv"
    /\ LoadFailure(FileNamed(file_path), explicit_data_type) = "no-valid-primary-data"
    /\ ~processed_df_drops.is_none
    /\ ~filtered_df.is_none
    /\ Len(filtered_df.rows) >= 1

-----------------------------------------------------------------------------
(* Properties of validate_csv_structure, checked under SpecValidate *)

\* The kind of a header, said without the detector
KindOf(cols) ==
    IF DROP_PRIMARY_COL \in Range(cols) THEN "drops"
    ELSE IF GAIN_PRIMARY_COL \in Range(cols) THEN "gains"
    ELSE "unknown"

\* No column the kind requires is missing from the header
RequiredPresent(cols) ==
    {DATE_COL, "Type", "Severity"} \subseteq Range(cols)

\* A sampled Date cell (one of the first five) is text that is no date
SampleDateUnparseable(df) ==
    /\ HasColumn(df, DATE_COL)
    /\ \E i \in 1..Len(df.rows) :
          i <= 5 /\ df.rows[i].cells[DATE_COL].k = "str"
                 /\ Unparseable(df.rows[i].cells[DATE_COL])

\* C11 as stated, for a header whose kind is detected: the report is valid
\* if and only if no required column of the kind is missing.
C11_ValidIffNoRequiredMissing ==
    (pc = "done" /\ KindOf(arg_df.columns) # "unknown") =>
        (ret.valid <=> RequiredPresent(arg_df.columns))

\* C12 as stated: when every required column is there and a sampled Date
\* does not parse, the failure is listed in the issues and the report is
\* still valid.
C12_DateIssueKeepsValid ==
    (/\ pc = "done"
     /\ KindOf(arg_df.columns) # "unknown"
     /\ RequiredPresent(arg_df.columns)
     /\ SampleDateUnparseable(arg_df))
    => /\ \E i \in 1..Len(ret.issues) : ret.issues[i].about = "date"
       /\ ret.valid

\* C13: for every table with neither 'Drop (%)' nor 'Gain (%)' the detected
\* type is 'unknown' and the report is not valid, Date, Type and Severity
\* present or not.
C13_UnknownNeverValid ==
    (/\ pc = "done"
     /\ DROP_PRIMARY_COL \notin Range(arg_df.columns)
     /\ GAIN_PRIMARY_COL \notin Range(arg_df.columns))
    => /\ ret.data_type = "unknown"
       /\ ~ret.valid

\* A table with Date, Type and Severity, no primary column and a date that
\* parses has been validated
C13_Witness ==
    /\ pc = "done"
    /\ KindOf(arg_df.columns) = "unknown"
    /\ RequiredPresent(arg_df.columns)
    /\ Len(arg_df.rows) = 1
    /\ ~SampleDateUnparseable(arg_df)
    /\ ret.missing_req_cols = <<>>

-----------------------------------------------------------------------------
(* Properties of a repeated clean_data, checked under SpecClean *)

-----------------------------------------------------------------------------
(* Properties of _convert_numeric_columns, checked under SpecConvert *)

\* The text with the blanks around it and one percent sign at its end taken
\* off, and nothing else
TrailingPercentTaken(t) ==
    IF t # <<>> /\ t[Len(t)] = "%" THEN StrStrip(SubSeq(t, 1, Len(t) - 1)) ELSE t

TrailingPercentStripped(s) == TrailingPercentTaken(StrStrip(s))

\* C16 as stated: every text cell of the primary column is converted to the
\* number that is left when the surrounding blanks and a percent sign at the
\* end are stripped ("3.45%" to 3.45, " -2.1 % " to -2.1), and nothing but
\* that sign and those blanks is stripped before the coercion.
C16_OnlyTrailingPercentStripped ==
    pc = "done" =>
        \A i \in 1..Len(arg_df.rows) :
            arg_df.rows[i].cells[primary_col_of(arg_type)].k = "str" =>
                ret.rows[i].cells[primary_col_of(arg_type)]
                    = to_numeric(Str(TrailingPercentStripped(
                          arg_df.rows[i].cells[primary_col_of(arg_type)].v)))

-----------------------------------------------------------------------------
(* Properties of the weekday, recovery and date filters, checked under Spec *)

\* No weekday is checked
NoDayChecked == \A n \in 1..Len(Days) : ~dow_vars[Days[n]]

\* C17: with a non-empty cleaned table for the current mode and no weekday
\* checked, applying the filters stores a filtered table of zero rows,
\* whatever the other filters are; the threshold texts are numbers or empty,
\* for otherwise the call is aborted before it stores anything.
C17_NoDayCheckedYieldsNoRows ==
    (/\ last_op = "apply"
     /\ NoDayChecked
     /\ ~CurrentDF.is_none
     /\ ~InvalidNumber(min_threshold_var)
     /\ ~InvalidNumber(max_threshold_var)
     /\ ~InvalidNumber(recovery_threshold))
    => /\ ApplyCompleted
       /\ ~filtered_df.is_none
       /\ filtered_df.rows = <<>>

\* The filters were applied to a loaded table with no weekday checked and a
\* date bound set besides
C17_Witness ==
    /\ last_op = "apply"
    /\ NoDayChecked
    /\ Len(CurrentDF.rows) > 0
    /\ date_from_var # <<>>
    /\ ApplyCompleted
    /\ filtered_df.rows = <<>>

\* The column of the selected recovery period
RecoveryCol == recovery_period \o " (%)"

\* A recovery threshold is given as a number and the period's column is not
\* in the current table
RecoveryColumnAbsent ==
    /\ ~CurrentDF.is_none
    /\ recovery_threshold # <<>>
    /\ ~InvalidNumber(recovery_threshold)
    /\ ~HasColumn(CurrentDF, RecoveryCol)

\* C18: applying the filters with a recovery threshold whose period has no
\* column in the table shows one "Missing Data" warning naming the period,
\* is not aborted, and stores the table that the same filters without the
\* recovery threshold give; the other threshold texts are numbers or empty.
C18_AbsentRecoveryColumnWarns ==
    (/\ last_op = "apply"
     /\ RecoveryColumnAbsent
     /\ ~InvalidNumber(min_threshold_var)
     /\ ~InvalidNumber(max_threshold_var))
    => /\ ApplyCompleted
       /\ dialogs = <<Dialog("showwarning", "Missing Data",
                             "Recovery period not available in data.",
                             <<recovery_period>>)>>
       /\ filtered_df = apply_filters(CurrentDF, current_analysis_mode,
                                      [CurrentUI EXCEPT !.rec = <<>>]).filtered

\* The warning was shown for a drops table that has the column of another
\* period, and rows were stored all the same
C18_Witness ==
    /\ last_op = "apply"
    /\ RecoveryColumnAbsent
    /\ current_analysis_mode = "drops"
    /\ HasColumn(CurrentDF, "1D (%)")
    /\ Len(dialogs) = 1
    /\ ApplyCompleted
    /\ Len(filtered_df.rows) > 0

\* The text of a date widget is not empty and is no date
BadDate(text) == text # <<>> /\ Unparseable(Str(text))

\* The widgets with every date text that is no date emptied
WithoutBadDates(ui) ==
    [ui EXCEPT !.from = IF BadDate(@) THEN <<>> ELSE @,
               !.to = IF BadDate(@) THEN <<>> ELSE @]

\* C19 as stated: when the date_from or date_to text is no date, applying
\* the filters is not aborted and shows no error, and stores the table that
\* the same filters with that text left empty give: the bound removes no
\* row and every other filter, the other date bound too, is applied.  The
\* threshold texts are numbers or empty.
C19_UnparseableDateIgnored ==
    (/\ last_op = "apply"
     /\ ~CurrentDF.is_none
     /\ BadDate(date_from_var) \/ BadDate(date_to_var)
     /\ ~InvalidNumber(min_threshold_var)
     /\ ~InvalidNumber(max_threshold_var)
     /\ ~InvalidNumber(recovery_threshold))
    => /\ ApplyCompleted
       /\ \A n \in 1..Len(dialogs) : dialogs[n].kind # "showerror"
       /\ filtered_df = apply_filters(CurrentDF, current_analysis_mode,
                                      WithoutBadDates(CurrentUI)).filtered

-----------------------------------------------------------------------------
(* Properties of the summary statistics, checked under SpecStats *)

\* The filtered table is absent or has no row
NoFilteredRows == filtered_df.is_none \/ empty(filtered_df)

\* C20 as stated: for an absent or empty table generate_summary_stats
\* returns its one "no data available" line and no line of a report, and
\* the callers of summary statistics in the tab (_update_statistics_display,
\* _export_excel) receive that same text for an empty filtered table.
C20_OneNoDataSentinel ==
    (/\ pc = "done"
     /\ NoFilteredRows
     /\ last_op \in {"generate_summary_stats", "update_statistics_display",
                     "export_excel"})
    => ret = <<Line("No data available for statistics.", <<>>)>>

\* C21 as stated: for a table that has rows and no value in any cell,
\* generate_summary_stats returns its one "no data available" line; it does
\* not raise and returns no line of a report.
C21_AllNullGivesSentinel ==
    (pc = "done" /\ last_op = "summary_of_nulls")
    => ret = <<Line("No data available for statistics.", <<>>)>>

-----------------------------------------------------------------------------
(* Properties of the date loop and the derived columns, checked under
   SpecClean *)

\* The call went into _clean_date_column: both required columns are there
DatesCleaned ==
    /\ pc = "done"
    /\ HasColumn(arg_df, DATE_COL)
    /\ HasColumn(arg_df, PrimaryOf(arg_type))

\* Some date of the table is a date under the format
ParsesUnder(df, fmt) ==
    \E i \in 1..Len(df.rows) : to_datetime(df.rows[i].cells[DATE_COL], fmt) # NaT

\* C22 as stated: the format-less parse comes first and, when it yields no
\* valid date, each explicit format in turn is tried against the date values
\* of the table; so a table with a date that is one under any of the four
\* strategies does not fail as date-unparseable.
C22_FormatsTriedOnTableDates ==
    DatesCleaned =>
        /\ \A k \in 1..Len(attempt_inputs(arg_df, date_formats)) :
              attempt_inputs(arg_df, date_formats)[k] = column(arg_df, DATE_COL)
        /\ (\E n \in 1..Len(date_formats) : ParsesUnder(arg_df, date_formats[n]))
              => "No valid date entries found"
                    \notin {dialogs[n].text : n \in 1..Len(dialogs)}

\* The label of a magnitude (in hundredths) under the edges 0, 1, 2, 3, 5
\* and no upper limit, every magnitude having one
LabelOf(m) ==
    IF m <= 100 THEN "< 1%"
    ELSE IF m <= 200 THEN "1-2%"
    ELSE IF m <= 300 THEN "2-3%"
    ELSE IF m <= 500 THEN "3-5%"
    ELSE "> 5%"

\* C23 as stated: every row of a cleaned table has a Magnitude Category, the
\* label of the absolute value of its primary value under the edges 0, 1, 2,
\* 3, 5 and infinity; no row has a null category, a row of magnitude 0
\* included.
C23_EveryRowHasCategory ==
    CleanReturned =>
        \A i \in 1..Len(ret.rows) :
            ret.rows[i].cells["Magnitude Category"]
                = [k |-> "cat",
                   v |-> LabelOf(Abs(ret.rows[i].cells[PrimaryOf(arg_type)].v))]

\* The numeric columns other than the primary one that the table has
OtherNumericColumns(df) ==
    {c \in Range(MARKET_INDICATORS \o RECOVERY_PERIODS
                 \o <<"Volume", "Total Avg (%)">>) : HasColumn(df, c)}

\* The rows of the raw table with a date and a number in the primary column
UsableRows(df, data_type) ==
    {i \in 1..Len(df.rows) :
        /\ ~Unparseable(df.rows[i].cells[DATE_COL])
        /\ NumericCell(df.rows[i].cells[PrimaryOf(data_type)])}

-----------------------------------------------------------------------------
(* Properties of get_numeric_columns, checked under SpecNumeric *)

\* The name ends with '(%)' or is one of the four indicator names
NumericName(c) ==
    \/ endswith(chars(c), <<"(", "%", ")">>)
    \/ c \in {"VIX", "RSI", "ATR", "Volume"}

\* C25: get_numeric_columns returns exactly the columns of the table whose
\* name ends with '(%)' or is one of VIX, RSI, ATR, Volume, in column order,
\* whatever the number of rows and whatever the cache holds of the tables
\* it was called on before: the result of another column set is never
\* returned.
C25_NumericColumnsOfNamesOnly ==
    pc = "done" => ret = SelectSeq(arg_df.columns, LAMBDA c : NumericName(c))

\* The call came after one on other columns of the same hash, whose other
\* result the cache still holds
C25_Witness ==
    /\ pc = "done"
    /\ \E i \in 1..Len(lru_cache) :
          /\ lru_cache[i].key[1] = hash(arg_df.columns, Len(arg_df.rows))
          /\ lru_cache[i].key[2] # arg_df.columns
          /\ lru_cache[i].result # ret
    /\ ret # <<>>

-----------------------------------------------------------------------------
(* The filtered table and the tables held, checked under Spec *)

\* C26: in every reachable state of the analysis tab the filtered table is
\* absent or has the columns of the cleaned table of the current analysis
\* mode and only rows of it; it never holds rows of the other kind's table
\* or of a table a later load replaced.
C26_FilteredRowsOfCurrentTable ==
    \/ filtered_df.is_none
    \/ /\ current_analysis_mode = "drops"
       /\ ~processed_df_drops.is_none
       /\ filtered_df.columns = processed_df_drops.columns
       /\ Range(filtered_df.rows) \subseteq Range(processed_df_drops.rows)
    \/ /\ current_analysis_mode = "gains"
       /\ ~processed_df_gains.is_none
       /\ filtered_df.columns = processed_df_gains.columns
       /\ Range(filtered_df.rows) \subseteq Range(processed_df_gains.rows)

\* The later drops file was loaded with a max threshold that is no number
\* in the widget, so that the filters of the load were not applied, while
\* a gains table is held
C26_Witness ==
    /\ last_op = "load"
    /\ file_path = "later_drops.csv"
    /\ ~ApplyCompleted
    /\ ~processed_df_gains.is_none
    /\ ~filtered_df.is_none
    /\ Len(filtered_df.rows) = Len(LaterDropsTable.rows)

\* The Date of the row is a Saturday or a Sunday
Weekend(r) == dayofweek(r.cells[DATE_COL]) \in {5, 6}

\* C27: a row whose Date is a Saturday or a Sunday is never in the table
\* that applying the filters stores, whichever days are checked, all five
\* included.
C27_NoWeekendRowFiltered ==
    (last_op \in {"apply", "load"} /\ ApplyCompleted /\ ~filtered_df.is_none)
    => \A i \in 1..Len(filtered_df.rows) : ~Weekend(filtered_df.rows[i])

\* The filters were applied with all five days checked to a table that has
\* a weekend row, and rows of it were stored
C27_Witness ==
    /\ last_op = "apply"
    /\ ApplyCompleted
    /\ \A n \in 1..Len(Days) : dow_vars[Days[n]]
    /\ \E i \in 1..Len(CurrentDF.rows) : Weekend(CurrentDF.rows[i])
    /\ filtered_df.rows # <<>>

\* C28: a load that succeeds replaces the raw and the cleaned table of the
\* file's kind by those of the file and leaves the raw and the cleaned table
\* of the other kind as they were, so that a drops table and a gains table
\* loaded one after the other, in either order, are both held.
C28_LoadReplacesOneKindOnly ==
    [][(/\ last_op' = "load"
        /\ LoadFailure(FileNamed(file_path'), explicit_data_type') = "none")
       => IF TypeOf(FileNamed(file_path'), explicit_data_type') = "drops"
          THEN /\ raw_df_drops' = FileNamed(file_path').df
               /\ ~processed_df_drops'.is_none
               /\ UNCHANGED <<raw_df_gains, processed_df_gains>>
          ELSE /\ raw_df_gains' = FileNamed(file_path').df
               /\ ~processed_df_gains'.is_none
               /\ UNCHANGED <<raw_df_drops, processed_df_drops>>]_vars

\* The gains file was loaded into a tab that held the drops of drops.csv,
\* and both are held
C28_Witness ==
    /\ last_op = "load"
    /\ file_path = "gains.csv"
    /\ raw_df_gains = GainsTable
    /\ ~processed_df_gains.is_none
    /\ raw_df_drops = DropsTable
    /\ ~processed_df_drops.is_none

-----------------------------------------------------------------------------
(* The checks of clean_data on the primary column, checked under SpecClean *)

\* The warning of lines 83-88
NoRowsRemaining ==
    Dialog("showwarning", "Warning",
           "No valid data rows remaining after cleaning", <<>>)

\* C29: no call of clean_data ends in the 'no valid data rows remaining after
\* cleaning' warning: a table that passes the check that the primary column
\* is not entirely null keeps a row when the rows with a null primary value
\* are dropped, and a table whose rows with a valid Date have no valid
\* primary value is reported as having no valid numeric data.
C29_NoRowsRemainingUnreachable ==
    pc \in {"done", "again"} =>
        /\ \A n \in 1..Len(dialogs) : dialogs[n] # NoRowsRemaining
        /\ ~(trace # <<>> /\ trace[Len(trace)] = "dropna")
        /\ (/\ pc = "done"
            /\ ~RequiredMissing(arg_df, arg_type)
            /\ ~NoParseableDate(arg_df)
            /\ NoUsableRow(arg_df, arg_type))
           => /\ ret.is_none
              /\ dialogs = <<Dialog("showerror", "Data Error",
                                    "contains no valid numeric data",
                                    <<PrimaryOf(arg_type)>>)>>

\* The table had a number in the primary column, in a row without a valid
\* Date, and a valid Date in a row without a number: the column was all
\* null when it was checked
C29_Witness ==
    /\ pc = "done"
    /\ ~RequiredMissing(arg_df, arg_type)
    /\ \E i \in 1..Len(arg_df.rows) :
          /\ NumericCell(arg_df.rows[i].cells[PrimaryOf(arg_type)])
          /\ Unparseable(arg_df.rows[i].cells[DATE_COL])
    /\ \E i \in 1..Len(arg_df.rows) :
          /\ ~NumericCell(arg_df.rows[i].cells[PrimaryOf(arg_type)])
          /\ ~Unparseable(arg_df.rows[i].cells[DATE_COL])
    /\ NoUsableRow(arg_df, arg_type)
    /\ ret.is_none
    /\ Len(dialogs) = 1
    /\ dialogs[1].text = "contains no valid numeric data"

-----------------------------------------------------------------------------
(* Null cells under the bounds of the filters, checked under Spec *)

\* The text of a numeric field gives a bound: it is a number
HasBound(text) == text # <<>> /\ float(text).ok

\* C30: in the table that applying the filters stores, no row has a null in
\* the column of an enabled indicator filter that has a min or a max bound,
\* nor in the column of the selected recovery period when a recovery
\* threshold is given and the column exists; a row with a null in a column
\* is kept only when no bound is given on that column.
C30_NullExcludedUnderBound ==
    (last_op \in {"apply", "load"} /\ ApplyCompleted /\ ~filtered_df.is_none)
    => \A n \in 1..Len(filtered_df.rows) :
          /\ \A i \in Range(Indicators) :
                (/\ ActiveIndicator(i)
                 /\ \/ HasBound(condition_vars[i].min)
                    \/ HasBound(condition_vars[i].max))
                => notna(filtered_df.rows[n].cells[i])
          /\ (HasBound(recovery_threshold) /\ HasColumn(CurrentDF, RecoveryCol))
             => notna(filtered_df.rows[n].cells[RecoveryCol])

=============================================================================
